---- MODULE Spec2Model ----
(***************************************************************************)
(* A model of aitui's UI controller and streaming workers (src/tui.py).    *)
(*                                                                         *)
(* Threads: the main loop (ChatTUI.run), one send worker per accepted send *)
(* (ChatTUI._api_worker), fire-and-forget title workers                    *)
(* (ChatTUI._title_worker) and the model preload                           *)
(* (ChatTUI._preload_models).                                              *)
(*                                                                         *)
(* Text is a sequence of tokens; string concatenation is \o.  A token is a *)
(* single character of typed input or one whole chunk of the backend.      *)
(*                                                                         *)
(* The backend and the store are tui.py's collaborators.  tui.py           *)
(* destructures every item of api.call_llm into (chunk_type,               *)
(* chunk_content) (line 519) and passes reasoning= to Database.add_message *)
(* (lines 573-576, 594-597), but call_llm in src/api.py yields plain        *)
(* strings and add_message in src/db.py takes no reasoning.  The variable  *)
(* api_db, fixed in the initial state, says which collaborators run:       *)
(*   "src"  api.py and db.py as they stand: a two-character string         *)
(*          destructures into an event of a type no handler knows, any     *)
(*          other string raises ValueError inside the worker's try block,  *)
(*          and add_message(..., reasoning=...) raises TypeError in the    *)
(*          main loop;                                                     *)
(*   "tui"  the collaborators tui.py is written against: the backend       *)
(*          yields ("content", text) and ("reasoning", text) pairs, ends   *)
(*          or raises, and the store keeps the reasoning it is given.      *)
(*                                                                         *)
(* A handler of the main loop and a statement of a worker are atomic       *)
(* steps; KeyboardInterrupt arrives between them.  When run() returns the  *)
(* process ends: its fields and threads are gone and the store remains.    *)
(*                                                                         *)
(* Specifications, over the same variables:                                *)
(*   Spec        a terminal no chat outgrows, the preload ended; Enter,    *)
(*               printable characters, Tab, Ctrl+B, Up/Down in the         *)
(*               sidebar, Ctrl+N, Ctrl+D, Escape, Ctrl+C; a confirm dialog *)
(*               is one step with the answer as its input;                 *)
(*   SendSpec,   the same commands from the states the liveness and send   *)
(*   LiveSpec    properties start in;                                      *)
(*   ScrollSpec  Spec's commands and Page Up/Down, Shift+Up/Down, Up/Down  *)
(*               in the input and resize, in a small terminal;             *)
(*   DrawSpec    the scroll recomputation of _draw_messages over           *)
(*               conversations, heights and offsets;                       *)
(*   DialogSpec  the dialogs (help, confirm, model picker) as places of    *)
(*               the main loop, with the preload running;                  *)
(*   EditSpec    the keys of the input field (characters, Backspace,       *)
(*               Delete, Left/Right, Home, End), Enter, Ctrl+N and Ctrl+C, *)
(*               with a backend that ends or raises before it yields.      *)
(* Outside EditSpec the commands that write only the cursor or the chat's  *)
(* model (Backspace, Delete, Left/Right, Home, End, a picker's selection)  *)
(* take the NoKey step.                                                    *)
(*                                                                         *)
(* The layout functions of src/md_renderer.py are operators over texts as  *)
(* sequences of characters; a styled run is a pair of a text and an        *)
(* attribute.  A call is the record md; its result is a record of a status *)
(* (pending, returned, raised, diverges) and the value returned.           *)
(*   WrapSpec      wrap_styled_text over runs of blanks and letters;       *)
(*   TruncateSpec  truncate_segments over the same runs;                   *)
(*   TableSpec     parse_table over tables of markup-free cells;           *)
(*   RenderSpec    render_markdown over texts of paragraphs, headers, list *)
(*                 items, fenced code and table lines.                     *)
(***************************************************************************)
EXTENDS Integers, Sequences, FiniteSets, TLC

\* ------------------------------------------------------------------ bounds
MaxRuns == 2        \* sends accepted in one behaviour
MaxChunks == 2      \* items the backend yields in one behaviour, over all calls
MaxChatIds == 2     \* chat ids the store hands out
MaxInput == 1       \* characters typed into the input field
TallWindow == 40    \* height of the message area of a terminal no chat outgrows
SmallWindow == 6    \* height of the message area of a small terminal
MaxOffset == 6      \* a scroll command is taken while it leaves the offset within this
MaxText == 4        \* characters of one run handed to the layout functions
MaxSegments == 2    \* runs of one call of the layout functions
MaxWidth == 4       \* the widest width the layout functions are called with
MaxRows == 2        \* rows of a table
MaxCols == 2        \* cells of a table row
MaxCell == 3        \* characters of a table cell
MaxTableWidth == 12 \* the widest width a table or a text is rendered at
MaxLines == 3       \* lines of a text handed to render_markdown
MaxEdit == 3        \* characters of the input field while it is edited

Runs == 1..MaxRuns
ChatIds == 1..MaxChatIds
\* the printable character typed while the program runs; typed blanks are in
\* the input SendInit starts with
Chars == {"a"}

\* ------------------------------------------------------------------ state
VARIABLES
    messages,         \* self.messages: the in-memory conversation
    input_text,       \* self.input_text
    cursor_pos,       \* self.cursor_pos
    is_thinking,      \* self.is_thinking
    stop_event,       \* self.stop_event (threading.Event)
    stream_queue,     \* self.stream_queue (queue.Queue), head = oldest
    current_chat_id,  \* self.current_chat_id (0 models None)
    chats,            \* self.chats: chat ids as last read from the store
    sidebar_idx,      \* self.sidebar_idx
    focus,            \* self.focus
    show_sidebar,     \* self.show_sidebar
    db_chats,         \* store: ids of table chats, oldest first
    db_messages,      \* store: messages of each chat id, ORDER BY id
    next_id,          \* store: next AUTOINCREMENT chat id
    workers,          \* send workers: position in _api_worker
    title_workers,    \* running title workers per chat id
    loop,             \* position of ChatTUI.run
    runs,             \* number of send workers started
    api_db,           \* which api.call_llm and Database run: "src" or "tui"
    scroll_offset,    \* self.scroll_offset
    auto_scroll,      \* self.auto_scroll
    chat_win_h,       \* self.chat_win.getmaxyx()[0]: the message area's height
    all_models,       \* self.all_models: the names the model picker lists
    preload,          \* position of the _preload_models thread
    db_titles,        \* store: title of each chat id ("New Chat" by default)
    sent,             \* history: events put by the send worker started last
    applied,          \* history: its content/reasoning events applied so far
    late,             \* history: chunk events it has put with stop_event set
    origin,           \* history: the current chat when each send was accepted
    md                \* md_renderer: a call of one of its functions

vars == <<messages, input_text, cursor_pos, is_thinking, stop_event,
          stream_queue, current_chat_id, chats, sidebar_idx, focus,
          show_sidebar, db_chats, db_messages, next_id, workers,
          title_workers, loop, runs, api_db, scroll_offset, auto_scroll,
          chat_win_h, all_models, preload, db_titles, sent, applied, late,
          origin, md>>

uiVars == <<messages, input_text, cursor_pos, is_thinking, current_chat_id,
            chats, sidebar_idx, focus, show_sidebar>>
dbVars == <<db_chats, db_messages, next_id, db_titles>>
viewVars == <<scroll_offset, auto_scroll, chat_win_h>>
modelVars == <<all_models, preload>>
histVars == <<sent, applied, late, origin>>
mdVars == <<md>>

\* no function of md_renderer.py has been called
MdIdle ==
    md = [call |-> "none", arg |-> <<>>, width |-> 1,
          result |-> [status |-> "pending", value |-> <<>>]]

\* ------------------------------------------------------------------ text
RECURSIVE lstrip(_)
lstrip(s) == IF s # <<>> /\ Head(s) = " " THEN lstrip(Tail(s)) ELSE s

RECURSIVE rstrip(_)
rstrip(s) ==
    IF s # <<>> /\ s[Len(s)] = " " THEN rstrip(SubSeq(s, 1, Len(s) - 1)) ELSE s

\* str.strip()
strip(s) == rstrip(lstrip(s))

\* the text of the n-th item of a backend call
ChunkText(kind, n) ==
    IF kind = "reasoning" THEN "hm"
    ELSE IF kind = "other" THEN "i"
    ELSE IF n = 1 THEN "Hel" ELSE IF n = 2 THEN "lo" ELSE "!"

ErrorText == "boom"

Last(s) == s[Len(s)]

Reverse(s) == [i \in 1..Len(s) |-> s[Len(s) + 1 - i]]

\* ------------------------------------------------------------------ store
\* Database.get_chats: ORDER BY created_at DESC
get_chats(dbc) == Reverse(dbc)

\* _load_messages over Database.get_messages: a missing reasoning becomes ''
LoadMessages(dbm, id) == dbm[id]

\* Database.add_message.  The row of src/db.py has no reasoning: with api_db =
\* "src" every call that does not raise passes <<>>.  With api_db = "tui" the
\* reasoning tui.py passes is kept.
add_message(dbm, id, role, content, reasoning) ==
    [dbm EXCEPT ![id] = Append(@, [role |-> role, content |-> content,
                                   reasoning |-> reasoning])]

\* Database.delete_chat: the chat row and, by ON DELETE CASCADE, its messages
delete_chat_rows(dbc, id) == SelectSeq(dbc, LAMBDA c : c # id)

IndexOf(s, x) == CHOOSE i \in 1..Len(s) : s[i] = x

\* the DEFAULT of column title of table chats
NewChat == <<"New Chat">>

\* Database.update_chat_title: UPDATE ... WHERE id = ? writes the row if the
\* chat still has one
update_chat_title(dbt, dbc, id, title) ==
    IF \E i \in 1..Len(dbc) : dbc[i] = id
    THEN [dbt EXCEPT ![id] = title]
    ELSE dbt

\* ------------------------------------------------------------------ events
Event(type, data, run) == [type |-> type, data |-> data, run |-> run]

TerminalTypes == {"done", "cancelled", "error"}
ChunkTypes == {"content", "reasoning"}

\* what chunk_type can be after the destructuring in _api_worker: a handler's
\* key with the backend tui.py expects, one character of a string of api.py
ItemKinds == ChunkTypes \cup {"other"}
YieldKinds(which) == IF which = "src" THEN {"other"} ELSE ChunkTypes

NoChunk == Event("none", "", 0)

\* ("title_updated", None) as put by the title worker of chat c; the tuple of
\* the code does not carry c
TitleUpdated(c) == [type |-> "title_updated", data |-> "", run |-> 0, chat |-> c]

AssistantMessage(content) ==
    [role |-> "assistant", content |-> content, reasoning |-> <<>>]

UserMessage(content) ==
    [role |-> "user", content |-> content, reasoning |-> <<>>]

\* ------------------------------------------------------------------ init
memVars == <<messages, input_text, cursor_pos, is_thinking, stop_event,
             stream_queue, current_chat_id, chats, sidebar_idx, focus,
             show_sidebar, workers, title_workers, runs, sent, applied, late,
             origin, viewVars, modelVars>>

\* ChatTUI.__init__ on an empty store: _refresh_chats creates the first chat.
\* The terminal is tall and _preload_models has ended with one model listed.
Init ==
    /\ messages = <<>>
    /\ input_text = <<>>
    /\ cursor_pos = 0
    /\ is_thinking = FALSE
    /\ stop_event = FALSE
    /\ stream_queue = <<>>
    /\ current_chat_id = 1
    /\ chats = <<1>>
    /\ sidebar_idx = 0
    /\ focus = "input"
    /\ show_sidebar = FALSE
    /\ db_chats = <<1>>
    /\ db_messages = [c \in ChatIds |-> <<>>]
    /\ next_id = 2
    /\ workers = [r \in Runs |-> [pc |-> "idle", n |-> 0, cur |-> NoChunk]]
    /\ title_workers = [c \in ChatIds |-> 0]
    /\ loop = "drain"
    /\ runs = 0
    /\ api_db \in {"src", "tui"}
    /\ scroll_offset = 0
    /\ auto_scroll = TRUE
    /\ chat_win_h = TallWindow
    /\ all_models = <<"m">>
    /\ preload = "end"
    /\ db_titles = [c \in ChatIds |-> NewChat]
    /\ sent = <<>>
    /\ applied = <<>>
    /\ origin = [r \in Runs |-> 0]
    /\ late = 0
    /\ MdIdle

\* run() returns: curses.wrapper ends, the process exits and its daemon
\* threads and all of ChatTUI's fields with it; the store remains
ExitProcess ==
    /\ loop' = "exited"
    /\ messages' = <<>>
    /\ input_text' = <<>>
    /\ cursor_pos' = 0
    /\ is_thinking' = FALSE
    /\ stop_event' = FALSE
    /\ stream_queue' = <<>>
    /\ current_chat_id' = 0
    /\ chats' = <<>>
    /\ sidebar_idx' = 0
    /\ focus' = "input"
    /\ show_sidebar' = FALSE
    /\ workers' = [r \in Runs |-> [pc |-> "idle", n |-> 0, cur |-> NoChunk]]
    /\ title_workers' = [c \in ChatIds |-> 0]
    /\ runs' = 0
    /\ sent' = <<>>
    /\ applied' = <<>>
    /\ origin' = [r \in Runs |-> 0]
    /\ late' = 0
    /\ scroll_offset' = 0
    /\ auto_scroll' = TRUE
    /\ all_models' = <<>>
    /\ preload' = "end"
    /\ UNCHANGED <<dbVars, chat_win_h>>

\* ------------------------------------------------------------------ data management
\* a _refresh_chats that keeps the conversation when it creates the chat of an
\* empty store
refresh_chats_KeepsMessages(cur, dbc, dbm, nid) ==
    IF dbc = <<>>
    THEN /\ db_chats' = <<nid>>
         /\ db_messages' = [dbm EXCEPT ![nid] = <<>>]
         /\ next_id' = nid + 1
         /\ current_chat_id' = nid
         /\ chats' = <<nid>>
         /\ sidebar_idx' = 0
         /\ messages' = messages
    ELSE LET cs == get_chats(dbc)
             found == cur # 0 /\ \E i \in 1..Len(cs) : cs[i] = cur
             idx == IF found THEN IndexOf(cs, cur) ELSE 1
         IN  /\ db_chats' = dbc
             /\ db_messages' = dbm
             /\ next_id' = nid
             /\ chats' = cs
             /\ sidebar_idx' = idx - 1
             /\ current_chat_id' = cs[idx]
             /\ messages' = LoadMessages(dbm, cs[idx])

\* ChatTUI._refresh_chats (with _select_chat and _load_messages), entered with
\* self.current_chat_id = cur on the store (dbc, dbm, nid)
refresh_chats(cur, dbc, dbm, nid) ==
    IF dbc = <<>>
    THEN /\ db_chats' = <<nid>>
         /\ db_messages' = [dbm EXCEPT ![nid] = <<>>]
         /\ next_id' = nid + 1
         /\ current_chat_id' = nid
         /\ chats' = <<nid>>
         /\ sidebar_idx' = 0
         /\ messages' = <<>>
    ELSE LET cs == get_chats(dbc)
             found == cur # 0 /\ \E i \in 1..Len(cs) : cs[i] = cur
             idx == IF found THEN IndexOf(cs, cur) ELSE 1
         IN  /\ db_chats' = dbc
             /\ db_messages' = dbm
             /\ next_id' = nid
             /\ chats' = cs
             /\ sidebar_idx' = idx - 1
             /\ current_chat_id' = cs[idx]
             /\ messages' = LoadMessages(dbm, cs[idx])

\* ------------------------------------------------------------------ send worker
\* queue.Queue.put by send worker r
Put(r, e) ==
    /\ stream_queue' = Append(stream_queue, e)
    /\ sent' = Append(sent, e)
    /\ late' = IF stop_event /\ e.type \in ChunkTypes THEN late + 1 ELSE late

\* the process runs: run() has neither returned nor raised
Alive == loop \notin {"exited", "crashed"}

workerFrame == <<uiVars, dbVars, title_workers, loop, runs, applied, origin,
                viewVars,
                 modelVars>>

RECURSIVE Yielded(_)
\* items the backend has yielded to the send workers 1..r
Yielded(r) == IF r = 0 THEN 0 ELSE workers[r].n + Yielded(r - 1)

\* a worker that puts Done where _api_worker puts Cancelled
ApiWorkerOnChunk_PutsDone(r, kind) ==
    /\ UNCHANGED <<api_db, mdVars>>
    /\ Alive
    /\ workers[r].pc = "next"
    /\ kind \in YieldKinds(api_db)
    /\ Yielded(MaxRuns) < MaxChunks
    /\ LET e == Event(kind, ChunkText(kind, workers[r].n + 1), r)
       IN  IF stop_event
           THEN /\ Put(r, Event("done", "", r))
                /\ workers' = [workers EXCEPT ![r].pc = "end", ![r].n = @ + 1]
           ELSE /\ workers' = [workers EXCEPT ![r].pc = "put", ![r].cur = e,
                                              ![r].n = @ + 1]
                /\ UNCHANGED <<stream_queue, sent, late>>
    /\ UNCHANGED <<workerFrame, stop_event>>

\* a worker that forwards every item without testing stop_event
ApiWorkerOnChunk_NoTest(r, kind) ==
    /\ UNCHANGED <<api_db, mdVars>>
    /\ Alive
    /\ workers[r].pc = "next"
    /\ kind \in YieldKinds(api_db)
    /\ Yielded(MaxRuns) < MaxChunks
    /\ workers' = [workers EXCEPT
                     ![r].pc = "put",
                     ![r].cur = Event(kind, ChunkText(kind, workers[r].n + 1), r),
                     ![r].n = @ + 1]
    /\ UNCHANGED <<stream_queue, sent, late, workerFrame, stop_event>>

\* a worker that puts Cancelled and goes on with the loop (no return)
ApiWorkerOnChunk_NoReturn(r, kind) ==
    /\ UNCHANGED <<api_db, mdVars>>
    /\ Alive
    /\ workers[r].pc = "next"
    /\ kind \in YieldKinds(api_db)
    /\ Yielded(MaxRuns) < MaxChunks
    /\ LET e == Event(kind, ChunkText(kind, workers[r].n + 1), r)
       IN  IF stop_event
           THEN /\ Put(r, Event("cancelled", "", r))
                /\ workers' = [workers EXCEPT ![r].n = @ + 1]
           ELSE /\ workers' = [workers EXCEPT ![r].pc = "put", ![r].cur = e,
                                              ![r].n = @ + 1]
                /\ UNCHANGED <<stream_queue, sent, late>>
    /\ UNCHANGED <<workerFrame, stop_event>>

\* _api_worker, the loop body up to the put: the backend yields an item and the
\* worker tests stop_event
ApiWorkerOnChunk(r, kind) ==
    /\ UNCHANGED <<api_db, mdVars>>
    /\ Alive
    /\ workers[r].pc = "next"
    /\ kind \in YieldKinds(api_db)
    /\ Yielded(MaxRuns) < MaxChunks
    /\ LET e == Event(kind, ChunkText(kind, workers[r].n + 1), r)
       IN  IF stop_event
           THEN /\ Put(r, Event("cancelled", "", r))
                /\ workers' = [workers EXCEPT ![r].pc = "end", ![r].n = @ + 1]
           ELSE /\ workers' = [workers EXCEPT ![r].pc = "put", ![r].cur = e,
                                              ![r].n = @ + 1]
                /\ UNCHANGED <<stream_queue, sent, late>>
    /\ UNCHANGED <<workerFrame, stop_event>>

\* _api_worker: self.stream_queue.put((chunk_type, chunk_content))
ApiWorkerPut(r) ==
    /\ UNCHANGED <<api_db, mdVars>>
    /\ Alive
    /\ workers[r].pc = "put"
    /\ Put(r, workers[r].cur)
    /\ workers' = [workers EXCEPT ![r].pc = "next", ![r].cur = NoChunk]
    /\ UNCHANGED <<workerFrame, stop_event>>

\* _api_worker: the backend's sequence is exhausted
ApiWorkerDone(r) ==
    /\ UNCHANGED <<api_db, mdVars>>
    /\ Alive
    /\ workers[r].pc = "next"
    /\ Put(r, Event("done", "", r))
    /\ workers' = [workers EXCEPT ![r].pc = "end"]
    /\ UNCHANGED <<workerFrame, stop_event>>

\* _api_worker: except Exception as e
ApiWorkerError(r) ==
    /\ UNCHANGED <<api_db, mdVars>>
    /\ Alive
    /\ workers[r].pc = "next"
    /\ Put(r, Event("error", ErrorText, r))
    /\ workers' = [workers EXCEPT ![r].pc = "end"]
    /\ UNCHANGED <<workerFrame, stop_event>>

\* ------------------------------------------------------------------ title worker
\* what api.call_llm may yield to a title worker before it ends
TitleReplies ==
    {<<>>,
     <<Event("content", "T", 0)>>,
     <<Event("reasoning", "hm", 0)>>,
     <<Event("reasoning", "hm", 0), Event("content", "T", 0)>>,
     <<Event("content", " ", 0)>>,
     <<Event("content", "\"", 0), Event("content", "T", 0),
       Event("content", "\"", 0), Event("content", " ", 0)>>}

RECURSIVE strip_char(_, _)
\* str.strip(c) for a one-character c
strip_char(s, c) ==
    IF s # <<>> /\ Head(s) = c THEN strip_char(Tail(s), c)
    ELSE IF s # <<>> /\ s[Len(s)] = c
    THEN strip_char(SubSeq(s, 1, Len(s) - 1), c)
    ELSE s

RECURSIVE title_of_AllChunks(_)
\* a title worker that accumulates every chunk, whatever its type
title_of_AllChunks(items) ==
    IF items = <<>> THEN <<>>
    ELSE <<Head(items).data>> \o title_of_AllChunks(Tail(items))

RECURSIVE title_of(_)
\* _title_worker: the loop over the backend's items (title += chunk_content
\* for chunk_type == "content")
title_of(items) ==
    IF items = <<>> THEN <<>>
    ELSE (IF Head(items).type = "content" THEN <<Head(items).data>> ELSE <<>>)
         \o title_of(Tail(items))

\* _title_worker: title.strip().strip('"').strip("'").strip()
clean_title(t) == strip(strip_char(strip_char(strip(t), "\""), "'"))

\* _title_worker when neither the backend nor the store raises: the backend
\* yields items and ends; a non-empty title is stored and title_updated is put
TitleWorkerFinish(c, items) ==
    /\ UNCHANGED <<api_db, mdVars>>
    /\ Alive
    /\ title_workers[c] > 0
    /\ title_workers' = [title_workers EXCEPT ![c] = @ - 1]
    /\ LET title == clean_title(title_of(items))
       IN  IF title # <<>>
           THEN /\ db_titles' = update_chat_title(db_titles, db_chats, c, title)
                /\ stream_queue' = Append(stream_queue, TitleUpdated(c))
           ELSE UNCHANGED <<db_titles, stream_queue>>
    /\ UNCHANGED <<uiVars, db_chats, db_messages, next_id, stop_event, workers,
                   loop, runs, histVars, viewVars, modelVars>>

\* _title_worker: except Exception: pass (the backend or the store raises)
TitleWorkerSilent(c) ==
    /\ UNCHANGED <<api_db, mdVars>>
    /\ Alive
    /\ title_workers[c] > 0
    /\ title_workers' = [title_workers EXCEPT ![c] = @ - 1]
    /\ UNCHANGED <<uiVars, dbVars, stop_event, stream_queue, workers, loop,
                   runs, histVars, viewVars, modelVars>>

\* ------------------------------------------------------------------ stream handlers
\* an _ensure_assistant_message that looks only for an empty conversation
ensure_assistant_message_NoRoleTest(msgs) ==
    IF msgs = <<>>
    THEN Append(msgs, AssistantMessage(<<>>))
    ELSE msgs

\* _ensure_assistant_message
ensure_assistant_message(msgs) ==
    IF msgs = <<>> \/ Last(msgs).role # "assistant"
    THEN Append(msgs, AssistantMessage(<<>>))
    ELSE msgs

\* _handle_content_chunk
handle_content_chunk(msgs, data) ==
    LET m == ensure_assistant_message(msgs)
    IN  [m EXCEPT ![Len(m)].content = Append(@, data)]

\* _handle_reasoning_chunk
handle_reasoning_chunk(msgs, data) ==
    LET m == ensure_assistant_message(msgs)
    IN  [m EXCEPT ![Len(m)].reasoning = Append(@, data)]

chatFrame == <<current_chat_id, chats, sidebar_idx, db_chats, next_id>>

\* _handle_stream_done; messages[-1] on an empty list raises IndexError and
\* add_message of src/db.py raises TypeError on reasoning=; run() catches
\* neither
handle_stream_done ==
    /\ is_thinking' = FALSE
    /\ IF messages = <<>> \/ api_db = "src"
       THEN /\ loop' = "crashed"
            /\ UNCHANGED <<messages, db_messages, title_workers>>
       ELSE /\ loop' = loop
            /\ db_messages' = add_message(db_messages, current_chat_id,
                                          "assistant", Last(messages).content,
                                          Last(messages).reasoning)
            /\ title_workers' =
                 IF Len(messages) = 2
                 THEN [title_workers EXCEPT ![current_chat_id] = @ + 1]
                 ELSE title_workers
            /\ UNCHANGED messages
    /\ UNCHANGED chatFrame

\* a _handle_stream_cancelled that leaves is_thinking set
handle_stream_cancelled_KeepsThinking ==
    /\ is_thinking' = is_thinking
    /\ IF messages # <<>> /\ Last(messages).role = "assistant"
       THEN LET content == Append(Last(messages).content, " [Cancelled]")
            IN  /\ messages' = [messages EXCEPT ![Len(messages)].content = content]
                /\ IF api_db = "src"
                   THEN /\ loop' = "crashed"
                        /\ UNCHANGED db_messages
                   ELSE /\ loop' = loop
                        /\ db_messages' =
                             add_message(db_messages, current_chat_id,
                                         "assistant", content,
                                         Last(messages).reasoning)
       ELSE UNCHANGED <<messages, db_messages, loop>>
    /\ UNCHANGED <<chatFrame, title_workers>>

\* _handle_stream_cancelled; add_message of src/db.py raises TypeError on
\* reasoning=
handle_stream_cancelled ==
    /\ is_thinking' = FALSE
    /\ IF messages # <<>> /\ Last(messages).role = "assistant"
       THEN LET content == Append(Last(messages).content, " [Cancelled]")
            IN  /\ messages' = [messages EXCEPT ![Len(messages)].content = content]
                /\ IF api_db = "src"
                   THEN /\ loop' = "crashed"
                        /\ UNCHANGED db_messages
                   ELSE /\ loop' = loop
                        /\ db_messages' =
                             add_message(db_messages, current_chat_id,
                                         "assistant", content,
                                         Last(messages).reasoning)
       ELSE UNCHANGED <<messages, db_messages, loop>>
    /\ UNCHANGED <<chatFrame, title_workers>>

\* a _handle_stream_error that shows the error and does not store it
handle_stream_error_NoStore(data) ==
    /\ is_thinking' = FALSE
    /\ messages' = Append(messages, AssistantMessage(<<"Error: ", data>>))
    /\ UNCHANGED <<db_messages, chatFrame, title_workers, loop>>

\* _handle_stream_error
handle_stream_error(data) ==
    /\ is_thinking' = FALSE
    /\ messages' = Append(messages, AssistantMessage(<<"Error: ", data>>))
    /\ db_messages' = add_message(db_messages, current_chat_id, "assistant",
                                  <<"Error: ", data>>, <<>>)
    /\ UNCHANGED <<chatFrame, title_workers, loop>>

\* _handle_title_updated
handle_title_updated ==
    /\ refresh_chats(current_chat_id, db_chats, db_messages, next_id)
    /\ UNCHANGED <<is_thinking, title_workers, loop>>

\* _process_stream_queue: one get_nowait and the handler it dispatches to (none
\* for a type that is no key of _stream_handlers)
ProcessEvent ==
    /\ UNCHANGED <<api_db, mdVars>>
    /\ loop = "drain"
    /\ stream_queue # <<>>
    /\ LET e == Head(stream_queue)
       IN  /\ stream_queue' = Tail(stream_queue)
           /\ applied' = IF e.type \in ChunkTypes
                         THEN Append(applied, e)
                         ELSE applied
           /\ CASE e.type = "content" ->
                     /\ messages' = handle_content_chunk(messages, e.data)
                     /\ UNCHANGED <<is_thinking, chatFrame, db_messages,
                                    title_workers, loop>>
                [] e.type = "reasoning" ->
                     /\ messages' = handle_reasoning_chunk(messages, e.data)
                     /\ UNCHANGED <<is_thinking, chatFrame, db_messages,
                                    title_workers, loop>>
                [] e.type = "done" -> handle_stream_done
                [] e.type = "cancelled" -> handle_stream_cancelled
                [] e.type = "error" -> handle_stream_error(e.data)
                [] e.type = "title_updated" -> handle_title_updated
                [] e.type = "other" ->
                     UNCHANGED <<messages, is_thinking, chatFrame, db_messages,
                                 title_workers, loop>>
    /\ UNCHANGED <<input_text, cursor_pos, stop_event, focus, show_sidebar,
                   workers, runs, sent, late, origin, db_titles, viewVars,
                   modelVars>>

\* ------------------------------------------------------------------ drawing
Max(a, b) == IF a > b THEN a ELSE b
Min(a, b) == IF a < b THEN a ELSE b

\* _render_message: the lines a message adds to all_lines (the header, one line
\* for a reasoning, one for a content, the spacer); a text is short enough
\* for one line of the message column
MessageLines(m) ==
    2 + (IF m.reasoning # <<>> THEN 1 ELSE 0) + (IF m.content # <<>> THEN 1 ELSE 0)

RECURSIVE LayoutLines(_)
\* _draw_messages: len(all_lines)
LayoutLines(msgs) ==
    IF msgs = <<>> THEN 0 ELSE MessageLines(Head(msgs)) + LayoutLines(Tail(msgs))

\* _draw_messages: max_scroll, for a message area of height h
max_scroll(msgs, h) == Max(0, LayoutLines(msgs) - (h - 2))

\* a recompute that keeps the offset of a view that is not pinned
recompute_scroll_NoClamp(total, h, offset, auto) ==
    IF auto THEN Max(0, total - (h - 2)) ELSE offset

\* _draw_messages, "Handle scrolling": the offset after the recompute
recompute_scroll(total, h, offset, auto) ==
    IF auto
    THEN Max(0, total - (h - 2))
    ELSE Min(offset, Max(0, total - (h - 2)))

\* a _draw_all that pins the view again when its offset has reached the bottom
draw_all_Repins(h) ==
    /\ scroll_offset' = recompute_scroll(LayoutLines(messages'), h,
                                         scroll_offset, auto_scroll)
    /\ auto_scroll' = (auto_scroll \/ scroll_offset >= max_scroll(messages', h))

\* _draw_all, as far as it writes the state: _draw_messages in a message area
\* of height h
draw_all(h) ==
    /\ scroll_offset' = recompute_scroll(LayoutLines(messages'), h,
                                         scroll_offset, auto_scroll)
    /\ UNCHANGED auto_scroll

\* _process_stream_queue: queue.Empty, then _draw_all
DrainEmpty ==
    /\ UNCHANGED <<api_db, mdVars>>
    /\ loop = "drain"
    /\ stream_queue = <<>>
    /\ loop' = "input"
    /\ UNCHANGED <<uiVars, dbVars, stop_event, stream_queue, workers,
                   title_workers, runs, histVars, chat_win_h, modelVars>>
    /\ draw_all(chat_win_h)

\* ------------------------------------------------------------------ commands
bgVars == <<stream_queue, title_workers, db_titles, viewVars, modelVars>>

\* a _send_message that does not look at is_thinking
send_message_NoThinkingGuard ==
    IF strip(input_text) = <<>>
    THEN UNCHANGED <<messages, input_text, cursor_pos, is_thinking, stop_event,
                     db_messages, workers, runs, histVars>>
    ELSE /\ runs < MaxRuns
         /\ db_messages' = add_message(db_messages, current_chat_id, "user",
                                       strip(input_text), <<>>)
         /\ messages' = Append(messages, UserMessage(strip(input_text)))
         /\ input_text' = <<>>
         /\ cursor_pos' = 0
         /\ is_thinking' = TRUE
         /\ stop_event' = FALSE
         /\ runs' = runs + 1
         /\ workers' = [workers EXCEPT ![runs + 1].pc = "next"]
         /\ sent' = <<>>
         /\ applied' = <<>>
         /\ origin' = [origin EXCEPT ![runs + 1] = current_chat_id]
         /\ late' = 0

\* a _send_message that sends the input as typed
send_message_Untrimmed ==
    IF strip(input_text) = <<>> \/ is_thinking
    THEN UNCHANGED <<messages, input_text, cursor_pos, is_thinking, stop_event,
                     db_messages, workers, runs, histVars>>
    ELSE /\ runs < MaxRuns
         /\ db_messages' = add_message(db_messages, current_chat_id, "user",
                                       input_text, <<>>)
         /\ messages' = Append(messages, UserMessage(input_text))
         /\ input_text' = <<>>
         /\ cursor_pos' = 0
         /\ is_thinking' = TRUE
         /\ stop_event' = FALSE
         /\ runs' = runs + 1
         /\ workers' = [workers EXCEPT ![runs + 1].pc = "next"]
         /\ sent' = <<>>
         /\ applied' = <<>>
         /\ origin' = [origin EXCEPT ![runs + 1] = current_chat_id]
         /\ late' = 0

\* a _send_message that leaves stop_event as it is
send_message_KeepsFlag ==
    IF strip(input_text) = <<>> \/ is_thinking
    THEN UNCHANGED <<messages, input_text, cursor_pos, is_thinking, stop_event,
                     db_messages, workers, runs, histVars>>
    ELSE /\ runs < MaxRuns
         /\ db_messages' = add_message(db_messages, current_chat_id, "user",
                                       strip(input_text), <<>>)
         /\ messages' = Append(messages, UserMessage(strip(input_text)))
         /\ input_text' = <<>>
         /\ cursor_pos' = 0
         /\ is_thinking' = TRUE
         /\ stop_event' = stop_event
         /\ runs' = runs + 1
         /\ workers' = [workers EXCEPT ![runs + 1].pc = "next"]
         /\ sent' = <<>>
         /\ applied' = <<>>
         /\ origin' = [origin EXCEPT ![runs + 1] = current_chat_id]
         /\ late' = 0

\* _send_message
send_message ==
    IF strip(input_text) = <<>> \/ is_thinking
    THEN UNCHANGED <<messages, input_text, cursor_pos, is_thinking, stop_event,
                     db_messages, workers, runs, histVars>>
    ELSE /\ runs < MaxRuns
         /\ db_messages' = add_message(db_messages, current_chat_id, "user",
                                       strip(input_text), <<>>)
         /\ messages' = Append(messages, UserMessage(strip(input_text)))
         /\ input_text' = <<>>
         /\ cursor_pos' = 0
         /\ is_thinking' = TRUE
         /\ stop_event' = FALSE
         /\ runs' = runs + 1
         /\ workers' = [workers EXCEPT ![runs + 1].pc = "next"]
         /\ sent' = <<>>
         /\ applied' = <<>>
         /\ origin' = [origin EXCEPT ![runs + 1] = current_chat_id]
         /\ late' = 0

\* _handle_input_keys / _handle_sidebar_keys: Enter
KeyEnter ==
    /\ UNCHANGED <<api_db, mdVars>>
    /\ loop = "input"
    /\ loop' = "drain"
    /\ IF focus = "input"
       THEN /\ send_message
            /\ UNCHANGED <<chatFrame, focus>>
       ELSE /\ refresh_chats(chats[sidebar_idx + 1], db_chats, db_messages,
                             next_id)
            /\ focus' = "input"
            /\ UNCHANGED <<input_text, cursor_pos, is_thinking, stop_event,
                           workers, runs, histVars>>
    /\ UNCHANGED <<show_sidebar, bgVars>>

\* _insert_char
insert_char(c) ==
    /\ input_text' = SubSeq(input_text, 1, cursor_pos) \o <<c>>
                     \o SubSeq(input_text, cursor_pos + 1, Len(input_text))
    /\ cursor_pos' = cursor_pos + 1

\* _handle_input_keys: a printable character
KeyChar(c) ==
    /\ UNCHANGED <<api_db, mdVars>>
    /\ loop = "input"
    /\ focus = "input"
    /\ Len(input_text) < MaxInput
    /\ loop' = "drain"
    /\ insert_char(c)
    /\ UNCHANGED <<messages, is_thinking, stop_event, chatFrame, focus,
                   show_sidebar, db_messages, workers, runs, histVars, bgVars>>

\* _handle_toggle_focus
handle_toggle_focus ==
    focus' = IF show_sidebar
             THEN (IF focus = "input" THEN "sidebar" ELSE "input")
             ELSE "input"

\* _handle_global_keys: Tab
KeyTab ==
    /\ UNCHANGED <<api_db, mdVars>>
    /\ loop = "input"
    /\ loop' = "drain"
    /\ handle_toggle_focus
    /\ UNCHANGED <<messages, input_text, cursor_pos, is_thinking, stop_event,
                   chatFrame, show_sidebar, db_messages, workers, runs, histVars,
                   bgVars>>

\* a _handle_toggle_sidebar that hides the sidebar and leaves the focus on it
handle_toggle_sidebar_KeepsFocus ==
    /\ show_sidebar' = ~show_sidebar
    /\ focus' = focus

\* _handle_toggle_sidebar
handle_toggle_sidebar ==
    /\ show_sidebar' = ~show_sidebar
    /\ focus' = IF show_sidebar THEN "input" ELSE focus

\* _handle_global_keys: Ctrl+B
KeyCtrlB ==
    /\ UNCHANGED <<api_db, mdVars>>
    /\ loop = "input"
    /\ loop' = "drain"
    /\ handle_toggle_sidebar
    /\ UNCHANGED <<messages, input_text, cursor_pos, is_thinking, stop_event,
                   chatFrame, db_messages, workers, runs, histVars, bgVars>>

\* _handle_sidebar_keys: Up (d = -1) and Down (d = 1)
KeySidebarMove(d) ==
    /\ UNCHANGED <<api_db, mdVars>>
    /\ loop = "input"
    /\ focus = "sidebar"
    /\ loop' = "drain"
    /\ sidebar_idx' = IF d < 0
                      THEN (IF sidebar_idx - 1 > 0 THEN sidebar_idx - 1 ELSE 0)
                      ELSE (IF sidebar_idx + 1 < Len(chats) - 1
                            THEN sidebar_idx + 1 ELSE Len(chats) - 1)
    /\ UNCHANGED <<messages, input_text, cursor_pos, is_thinking, stop_event,
                   current_chat_id, chats, focus, show_sidebar, dbVars, workers,
                   runs, histVars, bgVars>>

\* _handle_new_chat
handle_new_chat ==
    /\ next_id <= MaxChatIds
    /\ input_text' = <<>>
    /\ cursor_pos' = 0
    /\ refresh_chats(next_id, Append(db_chats, next_id),
                     [db_messages EXCEPT ![next_id] = <<>>], next_id + 1)

\* _handle_global_keys: Ctrl+N
KeyCtrlN ==
    /\ UNCHANGED <<api_db, mdVars>>
    /\ loop = "input"
    /\ loop' = "drain"
    /\ handle_new_chat
    /\ UNCHANGED <<is_thinking, stop_event, focus, show_sidebar, workers, runs,
                   histVars, bgVars>>

\* _handle_delete_chat, with the answer given to _show_confirm
handle_delete_chat(confirm) ==
    LET target_id == IF focus = "sidebar" THEN chats[sidebar_idx + 1]
                     ELSE current_chat_id
    IN  IF chats # <<>> /\ target_id # 0 /\ confirm
        THEN /\ Len(db_chats) > 1 \/ next_id <= MaxChatIds
             /\ refresh_chats(0, delete_chat_rows(db_chats, target_id),
                              [db_messages EXCEPT ![target_id] = <<>>], next_id)
        ELSE UNCHANGED <<messages, chatFrame, db_messages>>

\* _handle_global_keys: Ctrl+D
KeyCtrlD(confirm) ==
    /\ UNCHANGED <<api_db, mdVars>>
    /\ loop = "input"
    /\ loop' = "drain"
    /\ handle_delete_chat(confirm)
    /\ UNCHANGED <<input_text, cursor_pos, is_thinking, stop_event, focus,
                   show_sidebar, workers, runs, histVars, bgVars>>

\* _handle_exit with the answer given to _show_confirm; run() breaks on True
KeyEscape(confirm) ==
    /\ UNCHANGED <<api_db, mdVars>>
    /\ loop = "input"
    /\ IF confirm
       THEN ExitProcess
       ELSE /\ loop' = "drain"
            /\ UNCHANGED <<memVars, dbVars>>

\* get_wch raises curses.error: no key within the poll
NoKey ==
    /\ UNCHANGED <<api_db, mdVars>>
    /\ loop = "input"
    /\ loop' = "drain"
    /\ UNCHANGED <<uiVars, dbVars, stop_event, workers, runs, histVars, bgVars>>

\* _handle_keyboard_interrupt, when it returns False (confirm: the answer given
\* to _show_confirm)
handle_keyboard_interrupt(confirm) ==
    IF is_thinking
    THEN /\ stop_event' = TRUE
         /\ loop' = "drain"
         /\ UNCHANGED <<input_text, cursor_pos>>
    ELSE IF input_text # <<>>
    THEN /\ input_text' = <<>>
         /\ cursor_pos' = 0
         /\ loop' = "drain"
         /\ UNCHANGED stop_event
    ELSE /\ loop' = "drain"
         /\ UNCHANGED <<input_text, cursor_pos, stop_event>>

\* run(): except KeyboardInterrupt; it breaks when the handler returns True
KeyboardInterrupt(confirm) ==
    /\ UNCHANGED <<api_db, mdVars>>
    /\ Alive
    /\ IF ~is_thinking /\ input_text = <<>> /\ confirm
       THEN ExitProcess
       ELSE /\ handle_keyboard_interrupt(confirm)
            /\ UNCHANGED <<messages, is_thinking, chatFrame, focus,
                           show_sidebar, db_messages, workers, runs, histVars,
                           bgVars>>

\* ------------------------------------------------------------------ scrolling
\* heights the message area takes when the terminal is resized
WindowHeights == {SmallWindow, SmallWindow + 2}

\* _handle_page_scroll
handle_page_scroll(direction) ==
    /\ auto_scroll' = FALSE
    /\ scroll_offset' = IF direction < 0
                        THEN Max(0, scroll_offset - (chat_win_h \div 2))
                        ELSE scroll_offset + (chat_win_h \div 2)

\* _handle_line_scroll
handle_line_scroll(direction) ==
    /\ auto_scroll' = FALSE
    /\ scroll_offset' = IF direction < 0
                        THEN Max(0, scroll_offset - 1)
                        ELSE scroll_offset + 1

scrollFrame == <<uiVars, dbVars, stop_event, stream_queue, workers,
                 title_workers, runs, histVars, chat_win_h, modelVars>>

\* _handle_global_keys: Page Up (direction = -1) and Page Down (direction = 1)
KeyPage(direction) ==
    /\ UNCHANGED <<api_db, mdVars>>
    /\ loop = "input"
    /\ direction > 0 => scroll_offset + (chat_win_h \div 2) <= MaxOffset
    /\ loop' = "drain"
    /\ handle_page_scroll(direction)
    /\ UNCHANGED scrollFrame

\* _handle_global_keys: Shift+Up (direction = -1) and Shift+Down (direction = 1)
KeyShiftArrow(direction) ==
    /\ UNCHANGED <<api_db, mdVars>>
    /\ loop = "input"
    /\ direction > 0 => scroll_offset + 1 <= MaxOffset
    /\ loop' = "drain"
    /\ handle_line_scroll(direction)
    /\ UNCHANGED scrollFrame

\* _handle_global_keys, "Arrow keys in input mode also scroll": Up (direction =
\* -1) and Down (direction = 1) with the focus on the input.  Up at offset 0 is
\* not handled there and _handle_input_keys has no branch for it.
KeyArrowInput(direction) ==
    /\ UNCHANGED <<api_db, mdVars>>
    /\ loop = "input"
    /\ focus = "input"
    /\ direction > 0 => scroll_offset + 1 <= MaxOffset
    /\ loop' = "drain"
    /\ IF direction < 0 /\ ~(scroll_offset > 0)
       THEN UNCHANGED <<scroll_offset, auto_scroll>>
       ELSE handle_line_scroll(direction)
    /\ UNCHANGED scrollFrame

\* _handle_resize: the message area gets height h and _draw_all runs
KeyResize(h) ==
    /\ UNCHANGED <<api_db, mdVars>>
    /\ loop = "input"
    /\ loop' = "drain"
    /\ chat_win_h' = h
    /\ UNCHANGED <<uiVars, dbVars, stop_event, stream_queue, workers,
                   title_workers, runs, histVars, modelVars>>
    /\ draw_all(h)

\* ------------------------------------------------------------------ dialogs
\* The dialogs as the places they are: the main loop waits in the dialog's own
\* getch (or, for "fetch", in api.get_models) while the workers run.
\*   "help"              _show_help
\*   "confirm_exit"      _show_confirm of _handle_exit
\*   "confirm_interrupt" _show_confirm of _handle_keyboard_interrupt
\*   "confirm_delete"    _show_confirm of _handle_delete_chat
\*   "fetch"             _show_model_selector: api.get_models
\*   "confirm_error"     _show_confirm of _show_model_selector
\*   "picker"            _show_model_selector: the selection loop
DialogStates ==
    {"help", "confirm_exit", "confirm_interrupt", "confirm_delete", "fetch",
     "confirm_error", "picker"}

dialogFrame == <<uiVars, dbVars, stop_event, stream_queue, workers,
                 title_workers, runs, histVars, viewVars, modelVars>>

\* _handle_global_keys: Ctrl+H, up to the dialog's getch
OpenHelp ==
    /\ UNCHANGED <<api_db, mdVars>>
    /\ loop = "input"
    /\ loop' = "help"
    /\ UNCHANGED dialogFrame

\* _show_help: any key closes it
CloseHelp ==
    /\ UNCHANGED <<api_db, mdVars>>
    /\ loop = "help"
    /\ loop' = "drain"
    /\ UNCHANGED dialogFrame

\* _handle_global_keys: Escape, up to the dialog's getch
OpenExitConfirm ==
    /\ UNCHANGED <<api_db, mdVars>>
    /\ loop = "input"
    /\ loop' = "confirm_exit"
    /\ UNCHANGED dialogFrame

\* _handle_exit and _handle_keyboard_interrupt once _show_confirm has returned
\* confirm; run() breaks on True
AnswerExit(confirm) ==
    /\ UNCHANGED <<api_db, mdVars>>
    /\ loop \in {"confirm_exit", "confirm_interrupt"}
    /\ IF confirm
       THEN ExitProcess
       ELSE /\ loop' = "drain"
            /\ UNCHANGED dialogFrame

\* _handle_global_keys: Ctrl+D, up to the dialog's getch (no dialog without a
\* chat to delete)
OpenDeleteConfirm ==
    /\ UNCHANGED <<api_db, mdVars>>
    /\ loop = "input"
    /\ LET target_id == IF focus = "sidebar" THEN chats[sidebar_idx + 1]
                        ELSE current_chat_id
       IN  loop' = IF chats # <<>> /\ target_id # 0 THEN "confirm_delete"
                   ELSE "drain"
    /\ UNCHANGED dialogFrame

\* _handle_delete_chat once _show_confirm has returned confirm
AnswerDelete(confirm) ==
    /\ UNCHANGED <<api_db, mdVars>>
    /\ loop = "confirm_delete"
    /\ loop' = "drain"
    /\ handle_delete_chat(confirm)
    /\ UNCHANGED <<input_text, cursor_pos, is_thinking, stop_event, focus,
                   show_sidebar, workers, runs, histVars, bgVars>>

\* _handle_global_keys: Ctrl+G; with an empty self.all_models the main loop
\* calls api.get_models itself
OpenPicker ==
    /\ UNCHANGED <<api_db, mdVars>>
    /\ loop = "input"
    /\ loop' = IF all_models = <<>> THEN "fetch" ELSE "picker"
    /\ UNCHANGED dialogFrame

\* _show_model_selector: api.get_models returns models or raises
PickerFetch(ok) ==
    /\ UNCHANGED <<api_db, mdVars>>
    /\ loop = "fetch"
    /\ IF ok
       THEN /\ all_models' = <<"m">>
            /\ loop' = "picker"
       ELSE /\ loop' = "confirm_error"
            /\ UNCHANGED all_models
    /\ UNCHANGED <<uiVars, dbVars, stop_event, stream_queue, workers,
                   title_workers, runs, histVars, viewVars, preload>>

\* _show_model_selector: the error dialog is answered and the selector returns
DismissError ==
    /\ UNCHANGED <<api_db, mdVars>>
    /\ loop = "confirm_error"
    /\ loop' = "drain"
    /\ UNCHANGED dialogFrame

\* a selector that hands the focus to the input when it closes
PickerClose_FocusInput(select) ==
    /\ UNCHANGED <<api_db, mdVars>>
    /\ loop = "picker"
    /\ select => all_models # <<>>
    /\ loop' = "drain"
    /\ focus' = "input"
    /\ IF select /\ current_chat_id # 0
       THEN refresh_chats(current_chat_id, db_chats, db_messages, next_id)
       ELSE UNCHANGED <<messages, chatFrame, db_messages>>
    /\ UNCHANGED <<input_text, cursor_pos, is_thinking, stop_event,
                   show_sidebar, workers, runs, histVars, stream_queue,
                   title_workers, db_titles, chat_win_h, modelVars>>
    /\ draw_all(chat_win_h)

\* _show_model_selector: Escape (select = FALSE) or Enter on a listed model
\* (update_chat_model, _refresh_chats), then _draw_all
PickerClose(select) ==
    /\ UNCHANGED <<api_db, mdVars>>
    /\ loop = "picker"
    /\ select => all_models # <<>>
    /\ loop' = "drain"
    /\ focus' = focus
    /\ IF select /\ current_chat_id # 0
       THEN refresh_chats(current_chat_id, db_chats, db_messages, next_id)
       ELSE UNCHANGED <<messages, chatFrame, db_messages>>
    /\ UNCHANGED <<input_text, cursor_pos, is_thinking, stop_event,
                   show_sidebar, workers, runs, histVars, stream_queue,
                   title_workers, db_titles, chat_win_h, modelVars>>
    /\ draw_all(chat_win_h)

\* run(): except KeyboardInterrupt, with the dialogs as places.  Ctrl+C in a
\* dialog ends the dialog with the exception.  Inside the confirm dialog of
\* _handle_keyboard_interrupt the exception leaves run(): the process ends.
Interrupt ==
    /\ UNCHANGED <<api_db, mdVars>>
    /\ Alive
    /\ IF loop = "confirm_interrupt"
       THEN ExitProcess
       ELSE /\ IF is_thinking
               THEN /\ stop_event' = TRUE
                    /\ loop' = "drain"
                    /\ UNCHANGED <<input_text, cursor_pos>>
               ELSE IF input_text # <<>>
               THEN /\ input_text' = <<>>
                    /\ cursor_pos' = 0
                    /\ loop' = "drain"
                    /\ UNCHANGED stop_event
               ELSE /\ loop' = "confirm_interrupt"
                    /\ UNCHANGED <<input_text, cursor_pos, stop_event>>
            /\ UNCHANGED <<messages, is_thinking, chatFrame, focus,
                           show_sidebar, db_messages, workers, runs, histVars,
                           bgVars>>

\* ------------------------------------------------------------------ model preload
preloadFrame == <<uiVars, dbVars, stop_event, stream_queue, workers,
                  title_workers, loop, runs, histVars, viewVars>>

\* _preload_models: self.all_models = []
PreloadReset ==
    /\ UNCHANGED <<api_db, mdVars>>
    /\ Alive
    /\ preload = "start"
    /\ preload' = "fetch"
    /\ all_models' = <<>>
    /\ UNCHANGED preloadFrame

\* _preload_models: api.get_models of the configured provider returns and
\* self.all_models.extend(models) runs, or it raises and the loop continues
PreloadFetch(ok) ==
    /\ UNCHANGED <<api_db, mdVars>>
    /\ Alive
    /\ preload = "fetch"
    /\ preload' = "end"
    /\ all_models' = IF ok THEN all_models \o <<"m">> ELSE all_models
    /\ UNCHANGED preloadFrame

\* ------------------------------------------------------------------ markdown layout
\* src/md_renderer.py.  Here a text is a sequence of characters and a run
\* (the code's "segment") is a pair <<text, attr>>.

\* str.isspace() of one character
IsSpace(ch) == ch \in {" ", "\n"}

\* s[:n] and s[n:] of Python, n negative included
PyPrefix(s, n) ==
    IF n >= 0 THEN SubSeq(s, 1, Min(n, Len(s)))
    ELSE SubSeq(s, 1, Max(0, Len(s) + n))
PySuffix(s, n) ==
    IF n >= 0 THEN SubSeq(s, Min(n, Len(s)) + 1, Len(s))
    ELSE SubSeq(s, Max(0, Len(s) + n) + 1, Len(s))

\* the length of the longest prefix of text whose characters are all
\* whitespace (space = TRUE) or all not whitespace (space = FALSE)
RECURSIVE RunLength(_, _)
RunLength(text, space) ==
    IF text = <<>> \/ IsSpace(Head(text)) # space THEN 0
    ELSE 1 + RunLength(Tail(text), space)

\* re.split(r'(\s+)', text) without its empty strings: the maximal runs of
\* whitespace and of other characters, in order
RECURSIVE split_parts(_)
split_parts(text) ==
    IF text = <<>> THEN <<>>
    ELSE LET k == RunLength(text, IsSpace(Head(text)))
         IN  <<SubSeq(text, 1, k)>> \o split_parts(SubSeq(text, k + 1, Len(text)))

\* a flush that starts a new line without keeping the current one
flush_line_Discards(st) ==
    [st EXCEPT !.current_line = <<>>,
               !.current_width = 0]

\* lines.append(current_line); current_line = []; current_width = 0
flush_line(st) ==
    [st EXCEPT !.lines = Append(@, st.current_line),
               !.current_line = <<>>,
               !.current_width = 0]

\* wrap_styled_text, lines 59-74: the loop "while len(part) > 0".  A pass that
\* starts on an empty line and takes nothing from part ends as it started but
\* for one more line: the loop never ends (st.diverges)
RECURSIVE hard_split(_, _, _, _)
hard_split(st, part, attr, width) ==
    IF Len(part) = 0 THEN st
    ELSE LET full == width - st.current_width <= 0
             s1 == IF full THEN flush_line(st) ELSE st
             space_left == IF full THEN width ELSE width - st.current_width
             chunk == PyPrefix(part, space_left)
             rest == PySuffix(part, space_left)
             s2 == [s1 EXCEPT !.current_line = Append(@, <<chunk, attr>>),
                              !.current_width = @ + Len(chunk)]
             s3 == IF Len(rest) > 0 THEN flush_line(s2) ELSE s2
         IN  IF rest = part /\ s1.current_width = 0
             THEN [s3 EXCEPT !.diverges = TRUE]
             ELSE hard_split(s3, rest, attr, width)

\* a wrap that puts every part on the current line
wrap_part_NoBreak(st, part, attr, width) ==
    [st EXCEPT !.current_line = Append(@, <<part, attr>>),
               !.current_width = @ + Len(part)]

\* wrap_styled_text, lines 48-82: one part of a run
wrap_part(st, part, attr, width) ==
    IF st.diverges THEN st
    ELSE IF st.current_width + Len(part) > width
    THEN IF IsSpace(Head(part))
         THEN IF st.current_line # <<>> THEN flush_line(st) ELSE st
         ELSE IF Len(part) > width
         THEN hard_split(st, part, attr, width)
         ELSE [(IF st.current_line # <<>>
                THEN [st EXCEPT !.lines = Append(@, st.current_line)] ELSE st)
               EXCEPT !.current_line = <<<<part, attr>>>>,
                      !.current_width = Len(part)]
    ELSE [st EXCEPT !.current_line = Append(@, <<part, attr>>),
                    !.current_width = @ + Len(part)]

RECURSIVE wrap_parts(_, _, _, _)
wrap_parts(st, parts, attr, width) ==
    IF parts = <<>> THEN st
    ELSE wrap_parts(wrap_part(st, Head(parts), attr, width), Tail(parts),
                    attr, width)

RECURSIVE wrap_segments(_, _, _)
wrap_segments(st, segments, width) ==
    IF segments = <<>> THEN st
    ELSE wrap_segments(wrap_parts(st, split_parts(Head(segments)[1]),
                                  Head(segments)[2], width),
                       Tail(segments), width)

\* the outcome of a call: it returned a value, raised, or never returns
Return(v) == [status |-> "returned", value |-> v]
Raised == [status |-> "raised", value |-> <<>>]
Diverges == [status |-> "diverges", value |-> <<>>]

\* wrap_styled_text(segments, width): the lines, each a sequence of runs
wrap_styled_text(segments, width) ==
    IF segments = <<>> THEN Return(<<>>)
    ELSE LET st == wrap_segments([lines |-> <<>>, current_line |-> <<>>,
                                  current_width |-> 0, diverges |-> FALSE],
                                 segments, width)
         IN  IF st.diverges THEN Diverges
             ELSE IF st.current_line # <<>>
             THEN Return(Append(st.lines, st.current_line))
             ELSE Return(st.lines)

\* sum(len(text) for text, attr in segments)
RECURSIVE segments_len(_)
segments_len(segments) ==
    IF segments = <<>> THEN 0
    ELSE Len(Head(segments)[1]) + segments_len(Tail(segments))

\* ------------------------------------------------------------------ markdown layout: calls
tuiVars == <<uiVars, dbVars, viewVars, modelVars, histVars, stop_event,
             stream_queue, workers, title_workers, loop, runs, api_db>>

\* the program as constructed over an empty store (Init), with src's
\* collaborators; the layout functions read none of it
TuiStart ==
    /\ messages = <<>>
    /\ input_text = <<>>
    /\ cursor_pos = 0
    /\ is_thinking = FALSE
    /\ stop_event = FALSE
    /\ stream_queue = <<>>
    /\ current_chat_id = 1
    /\ chats = <<1>>
    /\ sidebar_idx = 0
    /\ focus = "input"
    /\ show_sidebar = FALSE
    /\ db_chats = <<1>>
    /\ db_messages = [c \in ChatIds |-> <<>>]
    /\ next_id = 2
    /\ workers = [r \in Runs |-> [pc |-> "idle", n |-> 0, cur |-> NoChunk]]
    /\ title_workers = [c \in ChatIds |-> 0]
    /\ loop = "drain"
    /\ runs = 0
    /\ api_db = "src"
    /\ scroll_offset = 0
    /\ auto_scroll = TRUE
    /\ chat_win_h = TallWindow
    /\ all_models = <<"m">>
    /\ preload = "end"
    /\ db_titles = [c \in ChatIds |-> NewChat]
    /\ sent = <<>>
    /\ applied = <<>>
    /\ origin = [r \in Runs |-> 0]
    /\ late = 0

\* what md.result holds until the call ends
Pending == [status |-> "pending", value |-> <<>>]

\* the texts of at most n characters over the alphabet
RECURSIVE Texts(_, _)
Texts(alphabet, n) ==
    IF n = 0 THEN {<<>>}
    ELSE LET shorter == Texts(alphabet, n - 1)
         IN  shorter \cup {Append(t, ch) : t \in shorter, ch \in alphabet}

\* the lists of at most n runs over the texts; the i-th run has attribute i
RECURSIVE RunLists(_, _)
RunLists(texts, n) ==
    IF n = 0 THEN {<<>>}
    ELSE LET shorter == RunLists(texts, n - 1)
         IN  shorter \cup {Append(s, <<t, Len(s) + 1>>) : s \in shorter, t \in texts}

\* a blank and two letters: the order of the text shows in what is returned
WrapChars == {" ", "a", "b"}
WrapInputs == RunLists(Texts(WrapChars, MaxText), MaxSegments)

\* a caller about to call wrap_styled_text(segments, width)
WrapInit ==
    /\ TuiStart
    /\ md \in [call : {"wrap_styled_text"}, arg : WrapInputs, width : 0..MaxWidth, result : {Pending}]

\* wrap_styled_text runs and returns, or never returns
CallWrap ==
    /\ md.call = "wrap_styled_text"
    /\ md.result = Pending
    /\ md' = [md EXCEPT !.result = wrap_styled_text(md.arg, md.width)]
    /\ UNCHANGED tuiVars

WrapSpec == WrapInit /\ [][CallWrap]_vars

\* ------------------------------------------------------------------ markdown layout: truncation
\* the character U+2026
Ellipsis == "..."

\* truncate_segments, lines 93-103: the loop over the segments
RECURSIVE truncate_loop(_, _, _, _)
truncate_loop(segments, max_len, result, curr_len) ==
    IF segments = <<>> THEN <<result, curr_len>>
    ELSE LET text == Head(segments)[1]
             attr == Head(segments)[2]
             remaining == max_len - curr_len
         IN  IF curr_len + Len(text) > max_len
             THEN <<IF remaining > 1
                    THEN Append(result,
                                <<Append(PyPrefix(text, remaining - 1), Ellipsis), attr>>)
                    ELSE IF remaining = 1
                    THEN Append(result, <<<<Ellipsis>>, attr>>)
                    ELSE result,
                    max_len>>
             ELSE truncate_loop(Tail(segments), max_len,
                                Append(result, <<text, attr>>), curr_len + Len(text))

\* truncate_segments(segments, max_len): the pair (result, curr_len)
truncate_segments(segments, max_len) == truncate_loop(segments, max_len, <<>>, 0)

\* a caller about to call truncate_segments(segments, max_len)
TruncateInit ==
    /\ TuiStart
    /\ md \in [call : {"truncate_segments"}, arg : WrapInputs, width : 0..MaxWidth, result : {Pending}]

CallTruncate ==
    /\ md.call = "truncate_segments"
    /\ md.result = Pending
    /\ md' = [md EXCEPT !.result = Return(truncate_segments(md.arg, md.width))]
    /\ UNCHANGED tuiVars

TruncateSpec == TruncateInit /\ [][CallTruncate]_vars

\* ------------------------------------------------------------------ markdown layout: tables
\* parse_inline(text, base_attr) of a text without the markup characters
\* * _ and `: pattern.finditer finds nothing, and the text, if there is
\* any, is one run
parse_inline(text, base_attr) ==
    IF text = <<>> THEN <<>> ELSE <<<<text, base_attr>>>>

\* s.startswith(prefix)
StartsWith(s, prefix) ==
    Len(s) >= Len(prefix) /\ SubSeq(s, 1, Len(prefix)) = prefix

\* the length of the longest prefix of text without the character sep
RECURSIVE FieldLength(_, _)
FieldLength(text, sep) ==
    IF text = <<>> \/ Head(text) = sep THEN 0 ELSE 1 + FieldLength(Tail(text), sep)

\* text.split(sep) for a one-character separator
RECURSIVE split(_, _)
split(text, sep) ==
    LET k == FieldLength(text, sep)
    IN  IF k = Len(text) THEN <<text>>
        ELSE <<SubSeq(text, 1, k)>> \o split(SubSeq(text, k + 2, Len(text)), sep)

\* re.match(r'^\s*\|[ \-:|]+\|\s*$', tl): between the first and the last
\* character of the stripped line, both |, stand one or more of " -:|"
IsSeparatorLine(tl) ==
    LET t == strip(tl)
    IN  /\ Len(t) >= 3
        /\ Head(t) = "|"
        /\ Last(t) = "|"
        /\ \A i \in 2..(Len(t) - 1) : t[i] \in {" ", "-", ":", "|"}

\* parse_table, lines 109-112: the index after the last table line
RECURSIVE table_end(_, _)
table_end(lines, i) ==
    IF i < Len(lines) /\ StartsWith(strip(lines[i + 1]), <<"|">>)
    THEN table_end(lines, i + 1) ELSE i

\* parse_table, lines 118-120: the stripped cells of a table line
table_cols(tl) ==
    LET parts == split(tl, "|")
        cols == [j \in 1..Len(parts) |-> strip(parts[j])]
        c1 == IF cols[1] = <<>> THEN Tail(cols) ELSE cols
    IN  IF c1 # <<>> /\ Last(c1) = <<>> THEN SubSeq(c1, 1, Len(c1) - 1) ELSE c1

\* parse_table, lines 114-122: rows_raw
RECURSIVE table_rows(_)
table_rows(table_lines) ==
    IF table_lines = <<>> THEN <<>>
    ELSE LET tl == Head(table_lines)
             rest == table_rows(Tail(table_lines))
         IN  IF IsSeparatorLine(tl) \/ table_cols(tl) = <<>> THEN rest
             ELSE <<table_cols(tl)>> \o rest

RECURSIVE SeqMax(_)
SeqMax(s) == IF s = <<>> THEN 0 ELSE Max(Head(s), SeqMax(Tail(s)))

RECURSIVE SeqSum(_)
SeqSum(s) == IF s = <<>> THEN 0 ELSE Head(s) + SeqSum(Tail(s))

\* parse_table, lines 133-138: the longest cell of each column
natural_widths(rows_segments) ==
    LET num_cols == SeqMax([r \in 1..Len(rows_segments) |-> Len(rows_segments[r])])
    IN  [j \in 1..num_cols |->
            SeqMax([r \in 1..Len(rows_segments) |->
                      IF j <= Len(rows_segments[r])
                      THEN segments_len(rows_segments[r][j]) ELSE 0])]

\* parse_table, lines 140-149: the column widths used for the rendering;
\* int(w * available / current_total) rounds down
shrink_widths(col_widths, width) ==
    LET num_cols == Len(col_widths)
        room == width - (num_cols * 3) - 1
        available == IF room < num_cols * 3 THEN num_cols * 3 ELSE room
        current_total == SeqSum(col_widths)
    IN  IF SeqSum(col_widths) + (num_cols * 3) + 1 > width /\ current_total > 0
        THEN [j \in 1..num_cols |->
                Max(1, (col_widths[j] * available) \div current_total)]
        ELSE col_widths

\* the characters of the borders and of the rows' bars
BoxH == "box-h"
BoxV == "box-v"
TopBorder == <<"box-top-left", "box-top-joint", "box-top-right">>
MidBorder == <<"box-mid-left", "box-mid-joint", "box-mid-right">>
BotBorder == <<"box-bottom-left", "box-bottom-joint", "box-bottom-right">>
BorderAttr == "color_pair(6)"

Repeat(ch, n) == [i \in 1..n |-> ch]

\* "joint".join("─" * (w + 2) for w in col_widths)
RECURSIVE border_text(_, _)
border_text(col_widths, joint) ==
    IF col_widths = <<>> THEN <<>>
    ELSE Repeat(BoxH, Head(col_widths) + 2)
         \o (IF Len(col_widths) > 1 THEN <<joint>> ELSE <<>>)
         \o border_text(Tail(col_widths), joint)

\* get_top_border, get_mid_border, get_bot_border as a line of one run
border_line(col_widths, kind) ==
    <<<<(<<kind[1]>> \o border_text(col_widths, kind[2])) \o <<kind[3]>>,
        BorderAttr>>>>

\* parse_table, lines 164-175: the line of one row
RECURSIVE row_cells(_, _, _, _)
row_cells(r_segs, col_widths, j, base) ==
    IF j > Len(col_widths) THEN <<>>
    ELSE LET cell_segs == IF j <= Len(r_segs) THEN r_segs[j] ELSE <<>>
             t == truncate_segments(cell_segs, col_widths[j])
         IN  (<<<<<<" ">>, base>>>> \o t[1])
             \o (IF t[2] < col_widths[j]
                 THEN <<<<Repeat(" ", col_widths[j] - t[2]), base>>>> ELSE <<>>)
             \o <<<<<<" ">>, base>>, <<<<BoxV>>, BorderAttr>>>>
             \o row_cells(r_segs, col_widths, j + 1, base)
row_line(r_segs, col_widths, base) ==
    <<<<<<BoxV>>, BorderAttr>>>> \o row_cells(r_segs, col_widths, 1, base)

\* parse_table, lines 163-178: the rows, a border after the first of several
RECURSIVE table_body(_, _, _, _)
table_body(rows_segments, r_idx, col_widths, base) ==
    IF r_idx > Len(rows_segments) THEN <<>>
    ELSE <<row_line(rows_segments[r_idx], col_widths, base)>>
         \o (IF r_idx = 1 /\ Len(rows_segments) > 1
             THEN <<border_line(col_widths, MidBorder)>> ELSE <<>>)
         \o table_body(rows_segments, r_idx + 1, col_widths, base)

\* parse_table(lines, start_idx, width, base_color_pair): the pair
\* (rendered_rows, i); start_idx and i count from 0 as in the code
parse_table(lines, start_idx, width, base) ==
    LET i == table_end(lines, start_idx)
        rows_raw == table_rows(SubSeq(lines, start_idx + 1, i))
        rows_segments ==
            [r \in 1..Len(rows_raw) |->
                [j \in 1..Len(rows_raw[r]) |-> parse_inline(rows_raw[r][j], base)]]
        col_widths == shrink_widths(natural_widths(rows_segments), width)
    IN  IF rows_raw = <<>> THEN <<<<>>, i>>
        ELSE <<(<<border_line(col_widths, TopBorder)>>
                  \o table_body(rows_segments, 1, col_widths, base))
                  \o <<border_line(col_widths, BotBorder)>>,
               i>>

\* a table line of markdown with the given cells: | c1 | c2 |
RECURSIVE TableLine(_)
TableLine(cells) ==
    IF cells = <<>> THEN <<"|">>
    ELSE TableLine(SubSeq(cells, 1, Len(cells) - 1))
         \o ((<<" ">> \o Last(cells)) \o <<" ", "|">>)

\* the sequences of 1..n elements of the set
RECURSIVE SeqsUpTo(_, _)
SeqsUpTo(set, n) ==
    IF n = 1 THEN {<<x>> : x \in set}
    ELSE LET shorter == SeqsUpTo(set, n - 1)
         IN  shorter \cup {Append(s, x) : s \in shorter, x \in set}

\* tables of up to MaxRows rows of up to MaxCols cells of up to MaxCell
\* characters, with or without the rule under the first row
TableCells == {Repeat("a", n) : n \in 0..MaxCell}
TableRows == {TableLine(cells) : cells \in SeqsUpTo(TableCells, MaxCols)}
TableInputs ==
    LET tables == SeqsUpTo(TableRows, MaxRows)
    IN  tables \cup {(<<Head(t)>> \o <<TableLine(<<<<"-">>>>)>>) \o Tail(t) : t \in tables}

BaseAttr == "base"

\* a caller about to call parse_table(lines, 0, width, base_color_pair)
TableInit ==
    /\ TuiStart
    /\ md \in [call : {"parse_table"}, arg : TableInputs, width : 1..MaxTableWidth, result : {Pending}]

CallTable ==
    /\ md.call = "parse_table"
    /\ md.result = Pending
    /\ md' = [md EXCEPT !.result = Return(parse_table(md.arg, 0, md.width, BaseAttr))]
    /\ UNCHANGED tuiVars

TableSpec == TableInit /\ [][CallTable]_vars

\* ------------------------------------------------------------------ markdown layout: render_markdown
RECURSIVE Concat(_)
Concat(texts) == IF texts = <<>> THEN <<>> ELSE Head(texts) \o Concat(Tail(texts))

\* textwrap.TextWrapper._wrap_chunks, the inner "while chunks": the chunks
\* that fit the line, and the chunks left
RECURSIVE take_chunks(_, _, _, _)
take_chunks(chunks, cur_line, cur_len, width) ==
    IF chunks # <<>> /\ cur_len + Len(Head(chunks)) <= width
    THEN take_chunks(Tail(chunks), Append(cur_line, Head(chunks)),
                     cur_len + Len(Head(chunks)), width)
    ELSE <<cur_line, chunks>>

\* textwrap.TextWrapper._handle_long_word (break_long_words,
\* break_on_hyphens): how many characters of the chunk go on the line; a
\* chunk is broken after its last hyphen within space_left that has a
\* character other than a hyphen before it
long_word_end(chunk, space_left) ==
    LET hyphens == {h \in 1..(space_left - 1) :
                      /\ chunk[h + 1] = "-"
                      /\ \E k \in 1..h : chunk[k] # "-"}
    IN  IF hyphens = {} THEN space_left
        ELSE 1 + CHOOSE h \in hyphens : \A g \in hyphens : g <= h

\* textwrap.TextWrapper._wrap_chunks for width > 0 with the defaults
\* (drop_whitespace, break_long_words): the lines of the chunks
RECURSIVE wrap_chunks(_, _, _)
wrap_chunks(chunks, width, lines) ==
    IF chunks = <<>> THEN lines
    ELSE LET c0 == IF strip(Head(chunks)) = <<>> /\ lines # <<>>
                   THEN Tail(chunks) ELSE chunks
             taken == take_chunks(c0, <<>>, 0, width)
             long == taken[2] # <<>> /\ Len(Head(taken[2])) > width
             \* _handle_long_word
             end == long_word_end(Head(taken[2]), width - Len(Concat(taken[1])))
             cur_line == IF long
                         THEN Append(taken[1], PyPrefix(Head(taken[2]), end))
                         ELSE taken[1]
             rest == IF long
                     THEN <<PySuffix(Head(taken[2]), end)>> \o Tail(taken[2])
                     ELSE taken[2]
             kept == IF cur_line # <<>> /\ strip(Last(cur_line)) = <<>>
                     THEN SubSeq(cur_line, 1, Len(cur_line) - 1) ELSE cur_line
         IN  wrap_chunks(rest, width,
                         IF kept # <<>> THEN Append(lines, Concat(kept)) ELSE lines)

\* textwrap.wrap(text, width=width) of a text of one line in which no
\* hyphens stand between letters: its chunks are the runs of whitespace
\* and of other characters; a width <= 0 raises ValueError
textwrap_wrap(text, width) ==
    IF width <= 0 THEN Raised ELSE Return(wrap_chunks(split_parts(text), width, <<>>))

\* s.ljust(n)
ljust(s, n) == s \o Repeat(" ", Max(0, n - Len(s)))

CodeAttr == "color_pair(4)"
HeaderAttr == "color_pair(5) | A_BOLD"

\* the character U+0060
Backtick == "backtick"

\* line.strip().startswith('```')
IsFence(line) == StartsWith(strip(line), <<Backtick, Backtick, Backtick>>)

\* render_markdown, lines 195-197: the index of the closing fence, or
\* len(lines) if there is none
RECURSIVE fence_end(_, _)
fence_end(lines, i) ==
    IF i < Len(lines) /\ ~IsFence(lines[i + 1]) THEN fence_end(lines, i + 1) ELSE i

\* render_markdown, lines 200-207: the lines of the code lines
RECURSIVE code_lines_out(_, _)
code_lines_out(code_lines, width) ==
    IF code_lines = <<>> THEN Return(<<>>)
    ELSE LET cl == Head(code_lines)
             rest == code_lines_out(Tail(code_lines), width)
             wrapped == textwrap_wrap(cl, width - 2)
         IN  IF strip(cl) = <<>>
             THEN IF rest.status # "returned" THEN rest
                  ELSE Return(<<<<<<Repeat(" ", width), CodeAttr>>>>>> \o rest.value)
             ELSE IF wrapped.status # "returned" THEN wrapped
             ELSE IF rest.status # "returned" THEN rest
             ELSE Return([k \in 1..Len(wrapped.value) |->
                            <<<<<<" ">> \o ljust(wrapped.value[k], width - 1),
                                CodeAttr>>>>]
                         \o rest.value)

\* the number of "#" a text starts with
RECURSIVE HashLength(_)
HashLength(text) ==
    IF text = <<>> \/ Head(text) # "#" THEN 0 ELSE 1 + HashLength(Tail(text))

\* re.match(r'^\s*(#{1,6})\s+(.*)', line): <<level, content>>, level 0 if
\* there is no match
header_match(line) ==
    LET t == lstrip(line)
        level == HashLength(t)
        after == SubSeq(t, level + 1, Len(t))
    IN  IF level \in 1..6 /\ after # <<>> /\ IsSpace(Head(after))
        THEN <<level, lstrip(after)>> ELSE <<0, <<>>>>

\* re.match(r'^(\s*)([*+-]|\d+\.)\s+(.*)', line) of a line without digits:
\* <<matched, indent, bullet_char, content>>
list_match(line) ==
    LET t == lstrip(line)
        indent == SubSeq(line, 1, Len(line) - Len(t))
    IN  IF Len(t) >= 2 /\ t[1] \in {"*", "+", "-"} /\ IsSpace(t[2])
        THEN <<TRUE, indent, t[1], lstrip(Tail(t))>>
        ELSE <<FALSE, <<>>, "", <<>>>>

Bullet == "bullet"

\* render_markdown, lines 236-240: the lines of a list item
list_lines(prefix, wrapped, base) ==
    [j \in 1..Len(wrapped) |->
        <<<<IF j = 1 THEN prefix ELSE Repeat(" ", Len(prefix)), base>>>>
        \o wrapped[j]]

\* render_markdown, lines 188-261: the loop from index i (from 0) on
RECURSIVE render_loop(_, _, _, _, _)
render_loop(lines, i, width, base, all_lines) ==
    IF i >= Len(lines) THEN Return(all_lines)
    ELSE
    LET line == lines[i + 1]
        blank == <<<<Repeat(" ", width), CodeAttr>>>>
        \* code block
        close == fence_end(lines, i + 1)
        code == code_lines_out(SubSeq(lines, i + 2, close), width)
        \* header
        hm == header_match(line)
        \* list
        lm == list_match(line)
        prefix == (lm[2] \o <<IF lm[3] \in {"*", "+", "-"} THEN Bullet ELSE lm[3]>>)
                  \o <<" ">>
        item == wrap_styled_text(parse_inline(lm[4], base), width - Len(prefix))
        \* table
        table == parse_table(lines, i, width, base)
        \* paragraph
        para == wrap_styled_text(parse_inline(line, base), width)
    IN  IF IsFence(line)
        THEN IF code.status # "returned" THEN code
             ELSE render_loop(lines, close + 1, width, base,
                              ((all_lines \o <<blank>>) \o code.value) \o <<blank>>)
        ELSE IF hm[1] > 0
        THEN render_loop(lines, i + 1, width, base,
                 Append(all_lines,
                        <<<<(Repeat("#", hm[1]) \o <<" ">>) \o hm[2], HeaderAttr>>>>))
        ELSE IF lm[1]
        THEN IF item.status # "returned" THEN item
             ELSE render_loop(lines, i + 1, width, base,
                      IF item.value = <<>>
                      THEN Append(all_lines, <<<<prefix, base>>>>)
                      ELSE all_lines \o list_lines(prefix, item.value, base))
        ELSE IF StartsWith(strip(line), <<"|">>) /\ table[1] # <<>>
        THEN render_loop(lines, table[2], width, base, all_lines \o table[1])
        ELSE IF strip(line) # <<>>
        THEN IF para.status # "returned" THEN para
             ELSE render_loop(lines, i + 1, width, base, all_lines \o para.value)
        ELSE render_loop(lines, i + 1, width, base,
                         Append(all_lines, <<<<<<>>, base>>>>))

\* render_markdown(text, width, base_color_pair)
render_markdown(text, width, base) ==
    render_loop(split(text, "\n"), 0, width, base, <<>>)

\* lines of markdown: empty, blank, paragraphs, a fence, headers, list items
\* (one indented, one without content), table rows and a table rule
RenderLines ==
    {<<>>, <<" ">>, <<"a">>, <<"a", "a", " ", "a">>,
     <<Backtick, Backtick, Backtick>>,
     <<"#", " ", "a">>, <<"#", "a">>,
     <<"-", " ", "a">>, <<" ", "-", " ", "a", "a">>, <<"-", " ">>,
     <<"|", " ", "a", " ", "|">>, <<"|", "-", "|">>, <<"|">>}

\* "\n".join(lines)
RECURSIVE JoinLines(_)
JoinLines(lines) ==
    IF Len(lines) = 1 THEN Head(lines)
    ELSE (Head(lines) \o <<"\n">>) \o JoinLines(Tail(lines))

RenderInputs == {JoinLines(ls) : ls \in SeqsUpTo(RenderLines, MaxLines)}

\* a caller about to call render_markdown(text, width, base_color_pair)
RenderInit ==
    /\ TuiStart
    /\ md \in [call : {"render_markdown"}, arg : RenderInputs, width : 1..MaxTableWidth, result : {Pending}]

\* render_markdown runs: it returns, raises, or never returns
CallRender ==
    /\ md.call = "render_markdown"
    /\ md.result = Pending
    /\ md' = [md EXCEPT !.result = render_markdown(md.arg, md.width, BaseAttr)]
    /\ UNCHANGED tuiVars

RenderSpec == RenderInit /\ [][CallRender]_vars

\* ------------------------------------------------------------------ specification
Next ==
    \/ ProcessEvent
    \/ DrainEmpty
    \/ KeyEnter
    \/ \E c \in Chars : KeyChar(c)
    \/ KeyTab
    \/ KeyCtrlB
    \/ \E d \in {-1, 1} : KeySidebarMove(d)
    \/ KeyCtrlN
    \/ \E confirm \in BOOLEAN : KeyCtrlD(confirm)
    \/ \E confirm \in BOOLEAN : KeyEscape(confirm)
    \/ NoKey
    \/ \E confirm \in BOOLEAN : KeyboardInterrupt(confirm)
    \/ \E r \in Runs, kind \in ItemKinds : ApiWorkerOnChunk(r, kind)
    \/ \E r \in Runs : ApiWorkerPut(r)
    \/ \E r \in Runs : ApiWorkerDone(r)
    \/ \E r \in Runs : ApiWorkerError(r)
    \/ \E c \in ChatIds, items \in TitleReplies : TitleWorkerFinish(c, items)
    \/ \E c \in ChatIds : TitleWorkerSilent(c)

Spec == Init /\ [][Next]_vars

\* the program after the user has typed a text with blanks around it
PaddedInputs ==
    {<<" ", "a", " ">>, <<" ", "a">>, <<"a", " ">>, <<" ", " ">>}

SendInit ==
    /\ input_text \in PaddedInputs
    /\ cursor_pos = Len(input_text)
    /\ messages = <<>>
    /\ is_thinking = FALSE
    /\ stop_event = FALSE
    /\ stream_queue = <<>>
    /\ current_chat_id = 1
    /\ chats = <<1>>
    /\ sidebar_idx = 0
    /\ focus = "input"
    /\ show_sidebar = FALSE
    /\ db_chats = <<1>>
    /\ db_messages = [c \in ChatIds |-> <<>>]
    /\ next_id = 2
    /\ workers = [r \in Runs |-> [pc |-> "idle", n |-> 0, cur |-> NoChunk]]
    /\ title_workers = [c \in ChatIds |-> 0]
    /\ loop = "drain"
    /\ runs = 0
    /\ api_db \in {"src", "tui"}
    /\ scroll_offset = 0
    /\ auto_scroll = TRUE
    /\ chat_win_h = TallWindow
    /\ all_models = <<"m">>
    /\ preload = "end"
    /\ db_titles = [c \in ChatIds |-> NewChat]
    /\ sent = <<>>
    /\ applied = <<>>
    /\ origin = [r \in Runs |-> 0]
    /\ late = 0
    /\ MdIdle

SendSpec == SendInit /\ [][Next]_vars

\* run(): the loop iterates (get_wch returns, a dialog is dismissed); the
\* daemon threads are scheduled; the backend's generator ends or raises
MainLoopStep ==
    \/ ProcessEvent
    \/ DrainEmpty
    \/ KeyEnter
    \/ \E c \in Chars : KeyChar(c)
    \/ KeyTab
    \/ KeyCtrlB
    \/ \E d \in {-1, 1} : KeySidebarMove(d)
    \/ KeyCtrlN
    \/ \E confirm \in BOOLEAN : KeyCtrlD(confirm)
    \/ \E confirm \in BOOLEAN : KeyEscape(confirm)
    \/ NoKey

ApiWorkerStep ==
    \/ \E r \in Runs, kind \in ItemKinds : ApiWorkerOnChunk(r, kind)
    \/ \E r \in Runs : ApiWorkerPut(r)
    \/ \E r \in Runs : ApiWorkerDone(r)
    \/ \E r \in Runs : ApiWorkerError(r)

\* the program after a first exchange in which the backend raised at once:
\* "a" was sent, the Error event was put and applied
LiveInit ==
    /\ messages = <<UserMessage(<<"a">>),
                    AssistantMessage(<<"Error: ", ErrorText>>)>>
    /\ input_text = <<>>
    /\ cursor_pos = 0
    /\ is_thinking = FALSE
    /\ stop_event = FALSE
    /\ stream_queue = <<>>
    /\ current_chat_id = 1
    /\ chats = <<1>>
    /\ sidebar_idx = 0
    /\ focus = "input"
    /\ show_sidebar = FALSE
    /\ db_chats = <<1>>
    /\ db_messages = [c \in ChatIds |-> IF c = 1 THEN messages ELSE <<>>]
    /\ next_id = 2
    /\ workers = [r \in Runs |->
                    [pc |-> IF r = 1 THEN "end" ELSE "idle", n |-> 0,
                     cur |-> NoChunk]]
    /\ title_workers = [c \in ChatIds |-> 0]
    /\ loop = "drain"
    /\ runs = 1
    /\ api_db \in {"src", "tui"}
    /\ scroll_offset = 0
    /\ auto_scroll = TRUE
    /\ chat_win_h = TallWindow
    /\ all_models = <<"m">>
    /\ preload = "end"
    /\ db_titles = [c \in ChatIds |-> NewChat]
    /\ sent = <<Event("error", ErrorText, 1)>>
    /\ applied = <<>>
    /\ origin = [r \in Runs |-> IF r = 1 THEN 1 ELSE 0]
    /\ late = 0
    /\ MdIdle

LiveSpec ==
    LiveInit /\ [][Next]_vars /\ WF_vars(MainLoopStep) /\ WF_vars(ApiWorkerStep)

\* the commands of the message area: scrolling and resizing
ScrollStep ==
    \/ \E direction \in {-1, 1} : KeyPage(direction)
    \/ \E direction \in {-1, 1} : KeyShiftArrow(direction)
    \/ \E direction \in {-1, 1} : KeyArrowInput(direction)
    \/ \E h \in WindowHeights : KeyResize(h)

\* the program of LiveInit in a small terminal
ScrollInit ==
    /\ messages = <<UserMessage(<<"a">>),
                    AssistantMessage(<<"Error: ", ErrorText>>)>>
    /\ input_text = <<>>
    /\ cursor_pos = 0
    /\ is_thinking = FALSE
    /\ stop_event = FALSE
    /\ stream_queue = <<>>
    /\ current_chat_id = 1
    /\ chats = <<1>>
    /\ sidebar_idx = 0
    /\ focus = "input"
    /\ show_sidebar = FALSE
    /\ db_chats = <<1>>
    /\ db_messages = [c \in ChatIds |-> IF c = 1 THEN messages ELSE <<>>]
    /\ next_id = 2
    /\ workers = [r \in Runs |->
                    [pc |-> IF r = 1 THEN "end" ELSE "idle", n |-> 0,
                     cur |-> NoChunk]]
    /\ title_workers = [c \in ChatIds |-> 0]
    /\ loop = "drain"
    /\ runs = 1
    /\ api_db \in {"src", "tui"}
    /\ scroll_offset = max_scroll(messages, SmallWindow)
    /\ auto_scroll = TRUE
    /\ chat_win_h = SmallWindow
    /\ all_models = <<"m">>
    /\ preload = "end"
    /\ db_titles = [c \in ChatIds |-> NewChat]
    /\ sent = <<Event("error", ErrorText, 1)>>
    /\ applied = <<>>
    /\ origin = [r \in Runs |-> IF r = 1 THEN 1 ELSE 0]
    /\ late = 0
    /\ MdIdle

ScrollSpec == ScrollInit /\ [][ScrollStep \/ Next]_vars

\* run() with the dialogs as places
DialogStep ==
    \/ OpenHelp
    \/ CloseHelp
    \/ OpenExitConfirm
    \/ \E confirm \in BOOLEAN : AnswerExit(confirm)
    \/ OpenDeleteConfirm
    \/ \E confirm \in BOOLEAN : AnswerDelete(confirm)
    \/ OpenPicker
    \/ \E ok \in BOOLEAN : PickerFetch(ok)
    \/ DismissError
    \/ \E select \in BOOLEAN : PickerClose(select)
    \/ Interrupt

PreloadStep ==
    \/ PreloadReset
    \/ \E ok \in BOOLEAN : PreloadFetch(ok)

TitleWorkerStep ==
    \/ \E c \in ChatIds, items \in TitleReplies : TitleWorkerFinish(c, items)
    \/ \E c \in ChatIds : TitleWorkerSilent(c)

\* the program of LiveInit when "a" has been typed again and _preload_models
\* has not yet run
DialogInit ==
    /\ messages = <<UserMessage(<<"a">>),
                    AssistantMessage(<<"Error: ", ErrorText>>)>>
    /\ input_text = <<"a">>
    /\ cursor_pos = 1
    /\ is_thinking = FALSE
    /\ stop_event = FALSE
    /\ stream_queue = <<>>
    /\ current_chat_id = 1
    /\ chats = <<1>>
    /\ sidebar_idx = 0
    /\ focus = "input"
    /\ show_sidebar = FALSE
    /\ db_chats = <<1>>
    /\ db_messages = [c \in ChatIds |-> IF c = 1 THEN messages ELSE <<>>]
    /\ next_id = 2
    /\ workers = [r \in Runs |->
                    [pc |-> IF r = 1 THEN "end" ELSE "idle", n |-> 0,
                     cur |-> NoChunk]]
    /\ title_workers = [c \in ChatIds |-> 0]
    /\ loop = "drain"
    /\ runs = 1
    /\ api_db \in {"src", "tui"}
    /\ scroll_offset = 0
    /\ auto_scroll = TRUE
    /\ chat_win_h = TallWindow
    /\ all_models = <<>>
    /\ preload = "start"
    /\ db_titles = [c \in ChatIds |-> NewChat]
    /\ sent = <<Event("error", ErrorText, 1)>>
    /\ applied = <<>>
    /\ origin = [r \in Runs |-> IF r = 1 THEN 1 ELSE 0]
    /\ late = 0
    /\ MdIdle

\* the user sends what is typed, moves the focus, shows and hides the
\* sidebar, selects and creates chats and opens the dialogs
DialogSpec ==
    DialogInit /\ [][\/ ProcessEvent
                     \/ DrainEmpty
                     \/ KeyEnter
                     \/ KeyTab
                     \/ KeyCtrlB
                     \/ \E d \in {-1, 1} : KeySidebarMove(d)
                     \/ KeyCtrlN
                     \/ NoKey
                     \/ DialogStep
                     \/ ApiWorkerStep
                     \/ TitleWorkerStep
                     \/ PreloadStep]_vars

\* conversations of 0, 3, 6, 7 and 13 layout lines
Conversations ==
    LET u == UserMessage(<<"a">>)
        a == AssistantMessage(<<"Hel">>)
        r == [role |-> "assistant", content |-> <<"Hel">>, reasoning |-> <<"hm">>]
    IN  {<<>>, <<u>>, <<u, a>>, <<u, r>>, <<u, a, u, r>>}

\* the program about to draw: a conversation loaded from the store in a small
\* terminal, and any offset and auto flag that scroll commands leave behind
DrawInit ==
    /\ messages \in Conversations
    /\ input_text = <<>>
    /\ cursor_pos = 0
    /\ is_thinking = FALSE
    /\ stop_event = FALSE
    /\ stream_queue = <<>>
    /\ current_chat_id = 1
    /\ chats = <<1>>
    /\ sidebar_idx = 0
    /\ focus = "input"
    /\ show_sidebar = FALSE
    /\ db_chats = <<1>>
    /\ db_messages = [c \in ChatIds |-> IF c = 1 THEN messages ELSE <<>>]
    /\ next_id = 2
    /\ workers = [r \in Runs |-> [pc |-> "idle", n |-> 0, cur |-> NoChunk]]
    /\ title_workers = [c \in ChatIds |-> 0]
    /\ loop = "drain"
    /\ runs = 0
    /\ api_db \in {"src", "tui"}
    /\ scroll_offset \in 0..MaxOffset
    /\ auto_scroll \in BOOLEAN
    /\ chat_win_h \in WindowHeights
    /\ all_models = <<"m">>
    /\ preload = "end"
    /\ db_titles = [c \in ChatIds |-> NewChat]
    /\ sent = <<>>
    /\ applied = <<>>
    /\ origin = [r \in Runs |-> 0]
    /\ late = 0
    /\ MdIdle

\* the steps that draw: the loop's _draw_all and the one of _handle_resize
DrawStep ==
    \/ DrainEmpty
    \/ \E h \in WindowHeights : KeyResize(h)

DrawSpec == DrawInit /\ [][DrawStep]_vars

\* ------------------------------------------------------------------ properties
RECURSIVE ContentData(_)
\* the concatenation of the Content chunks among the events evs
ContentData(evs) ==
    IF evs = <<>> THEN <<>>
    ELSE (IF Head(evs).type = "content" THEN <<Head(evs).data>> ELSE <<>>)
         \o ContentData(Tail(evs))

ChunkEvents(evs) == SelectSeq(evs, LAMBDA e : e.type \in ChunkTypes)

TerminalEvents(evs) == SelectSeq(evs, LAMBDA e : e.type \in TerminalTypes)

IsPrefix(a, b) == Len(a) <= Len(b) /\ SubSeq(b, 1, Len(a)) = a

\* this step is the main loop taking an event of the given type off the queue
Applying(type) ==
    /\ loop = "drain"
    /\ stream_queue # <<>>
    /\ Head(stream_queue).type = type
    /\ stream_queue' = Tail(stream_queue)
    /\ loop' # "exited"

\* this step is the send worker putting one event
Putting == Len(sent') = Len(sent) + 1

\* send workers that have not put their terminal event
Outstanding == {r \in Runs : workers[r].pc \in {"next", "put"}}

\* C1: the chunk events of a send run are applied in the order the worker put
\* them, and when the Done of a run with at least one Content chunk is applied
\* the last message of the conversation holds the concatenation of the run's
\* Content chunks, whatever the user does meanwhile.
C1_StreamingOrder ==
    [][/\ IsPrefix(applied', ChunkEvents(sent'))
       /\ (Applying("done") /\ ContentData(sent) # <<>>) =>
             /\ messages' # <<>>
             /\ Last(messages').content = ContentData(sent)]_vars

\* C2 as claimed: once the flag is set the run does not end in Done.
C2_CancelledNotDone ==
    [][(stop_event /\ Putting) => Last(sent').type # "done"]_vars

\* C2 as amended: after a cancellation request at most one more chunk event of
\* the run is put (so finitely many are applied); the run puts at most one
\* terminal event and exactly one once its worker has ended; an item the
\* backend yields after the request makes the worker put Cancelled and end;
\* Cancelled is put only after a request. (A backend that yields nothing more
\* after the request ends the run in Done or Error.)
C2_CancellationOutcome ==
    /\ [](/\ IsPrefix(applied, ChunkEvents(sent))
          /\ late <= 1
          /\ Len(TerminalEvents(sent)) <= 1
          /\ (runs > 0 /\ workers[runs].pc = "end") =>
                (Len(TerminalEvents(sent)) = 1
                 /\ Last(sent).type \in TerminalTypes)
          /\ (\E i \in 1..Len(sent) : sent[i].type = "cancelled") => stop_event)
    /\ [][\A r \in Runs :
            (stop_event /\ workers'[r].n = workers[r].n + 1) =>
               /\ workers'[r].pc = "end"
               /\ Putting
               /\ Last(sent').type = "cancelled"]_vars

C2_Witness ==
    /\ stop_event
    /\ ~is_thinking
    /\ Len(sent) = 2
    /\ sent[1].type = "content"
    /\ sent[2].type = "cancelled"
    /\ applied = <<sent[1]>>
    /\ messages # <<>>
    /\ Last(messages).content = <<"Hel", " [Cancelled]">>

\* C3 as claimed: no chunk event is put once the flag is set.
C3_NoChunkAfterCancel == late = 0

\* C3 as amended: with the flag set no chunk passes the worker's test, so the
\* only chunk event put after the request is one that had passed the test
\* before it: at most one.
C3_AtMostOneLateChunk ==
    /\ [](late <= 1)
    /\ [][stop_event =>
            /\ \A r \in Runs : workers[r].pc = "next" => workers'[r].pc # "put"
            /\ (Putting /\ Last(sent').type \in ChunkTypes) =>
                  \E r \in Runs : /\ workers[r].pc = "put"
                                  /\ workers[r].cur = Last(sent')]_vars

C3_Witness ==
    /\ late = 1
    /\ Last(sent).type = "cancelled"

\* C4: a send run puts at most one terminal event, puts nothing after it, and
\* has put exactly one when its worker has ended; only the run started last
\* puts events.
C4_TerminalFinality ==
    LET T == {i \in 1..Len(sent) : sent[i].type \in TerminalTypes}
    IN  /\ Cardinality(T) <= 1
        /\ T # {} => T = {Len(sent)}
        /\ \A i \in 1..Len(sent) : sent[i].run = runs
        /\ \A r \in Runs : r < runs => workers[r].pc = "end"
        /\ runs > 0 => (workers[runs].pc = "end" <=> T # {})

C4_Witness ==
    /\ Len(sent) = 3
    /\ sent[3].type = "done"
    /\ workers[1].pc = "end"

\* C5: a raising backend makes the worker put one Error; applying it keeps the
\* conversation as it is, appends the assistant message "Error: <message>",
\* stores that message for the current chat, clears is_thinking and leaves the
\* main loop running, so that a send is accepted again.
C5_ErrorHandling ==
    /\ [](Len(SelectSeq(sent, LAMBDA e : e.type = "error")) <= 1)
    /\ [][Applying("error") =>
            LET m == AssistantMessage(<<"Error: ", Head(stream_queue).data>>)
            IN  /\ messages' = Append(messages, m)
                /\ db_messages' = [db_messages EXCEPT
                                     ![current_chat_id] = Append(@, m)]
                /\ current_chat_id' = current_chat_id
                /\ ~is_thinking'
                /\ loop' = "drain"]_vars

C5_Witness ==
    /\ Len(messages) = 4
    /\ messages[2].content = <<"Hel">>
    /\ messages[3].content = <<"Error: ", ErrorText>>
    /\ messages[4].role = "user"
    /\ runs = 2

\* C6: at most one send worker has not put its terminal event, and no step
\* the running program takes while is_thinking is set starts a worker.
C6_SingleOutstandingSend ==
    /\ [](Cardinality(Outstanding) <= 1)
    /\ [][(is_thinking /\ loop' # "exited") =>
            /\ runs' = runs
            /\ \A r \in Runs : workers[r].pc = "idle" => workers'[r].pc = "idle"]_vars

C6_Witness ==
    /\ is_thinking
    /\ Outstanding = {1}
    /\ strip(input_text) # <<>>
    /\ focus = "input"
    /\ loop = "drain"
    /\ runs < MaxRuns

\* C7: Enter in the input field is a no-op when the trimmed input is empty or
\* is_thinking is set; otherwise it stores the trimmed text as a user message
\* of the current chat, appends the same message to the conversation, empties
\* the input, sets is_thinking and starts exactly one send worker.
C7_SendCommand ==
    [][(KeyEnter /\ focus = "input") =>
         IF strip(input_text) = <<>> \/ is_thinking
         THEN UNCHANGED <<input_text, cursor_pos, messages, dbVars,
                          is_thinking, workers, runs>>
         ELSE LET m == UserMessage(strip(input_text))
              IN  /\ db_messages' = [db_messages EXCEPT
                                       ![current_chat_id] = Append(@, m)]
                  /\ messages' = Append(messages, m)
                  /\ input_text' = <<>>
                  /\ cursor_pos' = 0
                  /\ is_thinking'
                  /\ Cardinality({r \in Runs : workers'[r] # workers[r]}) = 1
                  /\ \A r \in Runs : workers'[r] # workers[r] =>
                        (workers[r].pc = "idle" /\ workers'[r].pc = "next")]_vars

C7_Witness ==
    /\ runs = 1
    /\ workers[1].pc = "next"
    /\ is_thinking
    /\ input_text = <<>>
    /\ messages = <<UserMessage(<<"a">>)>>
    /\ db_messages[1] = <<UserMessage(<<"a">>)>>

\* C8: is_thinking is set by the accepted send and stays set while the run is
\* outstanding or its terminal event is still queued; only applying a Done,
\* Cancelled or Error event clears it, each of them does, and the event is
\* one of the run started last; when the
\* backend's sequence ends and the main loop keeps iterating, a set
\* is_thinking is eventually clear again (or the program has exited).
C8_ThinkingLifetime ==
    /\ []((runs > 0 /\ (\/ workers[runs].pc # "end"
                          \/ \E i \in 1..Len(stream_queue) :
                                stream_queue[i].type \in TerminalTypes))
           => is_thinking)
    /\ [][/\ (is_thinking /\ ~is_thinking') =>
                ((\E t \in TerminalTypes : Applying(t)) \/ loop' = "exited")
          /\ (\E t \in TerminalTypes : Applying(t)) =>
                (~is_thinking' /\ Head(stream_queue).run = runs)
          /\ (~is_thinking /\ is_thinking') => runs' = runs + 1]_vars
    /\ (is_thinking ~> (~is_thinking \/ loop = "exited"))

C8_Witness ==
    /\ ~is_thinking
    /\ runs = 2
    /\ workers[2].pc = "end"
    /\ Len(sent) = 3
    /\ Last(sent).type = "done"
    /\ stream_queue = <<>>
    /\ loop = "input"

\* C9: applying an event of a send run changes no message that the store
\* holds (a message that was loaded, or stored when its stream ended).
C9_MessageImmutability ==
    [][\A t \in ChunkTypes \cup TerminalTypes : Applying(t) =>
          \A i \in 1..Len(messages) :
             (/\ i <= Len(db_messages[current_chat_id])
              /\ db_messages[current_chat_id][i] = messages[i])
             => (i <= Len(messages') /\ messages'[i] = messages[i])]_vars

\* C10: a Content or Reasoning event changes one message only, the last one of
\* the conversation, which has role assistant and gets the chunk appended.
C10_OpenMessage ==
    [][\A t \in ChunkTypes : Applying(t) =>
          LET n == Len(messages')
              old == IF n = Len(messages) THEN Last(messages)
                     ELSE AssistantMessage(<<>>)
              data == Head(stream_queue).data
          IN  /\ n \in {Len(messages), Len(messages) + 1}
              /\ n > 0
              /\ messages'[n].role = "assistant"
              /\ \A i \in 1..(n - 1) : messages'[i] = messages[i]
              /\ IF t = "content"
                 THEN /\ messages'[n].content = old.content \o <<data>>
                      /\ messages'[n].reasoning = old.reasoning
                 ELSE /\ messages'[n].reasoning = old.reasoning \o <<data>>
                      /\ messages'[n].content = old.content]_vars

C10_Witness ==
    /\ Len(messages) = 2
    /\ messages[2].role = "assistant"
    /\ messages[2].reasoning = <<"hm">>
    /\ messages[2].content = <<"lo">>
    /\ Len(applied) = 2

\* this step is a title worker of chat c ending
TitleWorkerEnds(c) == title_workers'[c] < title_workers[c] /\ loop' # "exited"

\* this step puts a title_updated event
PuttingTitle ==
    /\ Len(stream_queue') = Len(stream_queue) + 1
    /\ Last(stream_queue').type = "title_updated"

C14_StaleTitleUpdated ==
    [][(Applying("title_updated") /\ Head(stream_queue).chat # current_chat_id)
         => UNCHANGED <<current_chat_id, messages, sidebar_idx, scroll_offset,
                        auto_scroll>>]_vars

\* C19: the focus is Input or Sidebar; with the sidebar hidden it is Input; it
\* moves to the sidebar only while the sidebar is shown; and the focus-switch
\* command flips it when the sidebar is shown and leaves it on Input when not.
C19_FocusInvariant ==
    /\ [](focus \in {"input", "sidebar"} /\ (~show_sidebar => focus = "input"))
    /\ [][/\ (focus = "input" /\ focus' = "sidebar") =>
                (show_sidebar /\ show_sidebar')
          /\ KeyTab => IF show_sidebar
                       THEN focus' # focus /\ show_sidebar'
                       ELSE focus' = "input" /\ ~show_sidebar']_vars

\* the sidebar was hidden with Ctrl+B after the selection had been moved in it
C19_Witness ==
    /\ ~show_sidebar
    /\ focus = "input"
    /\ Len(chats) = 2
    /\ chats[sidebar_idx + 1] # current_chat_id
    /\ loop = "input"

\* C15: after the recompute of a draw, for the layout lines total, the
\* viewport height (the window's height less its border) and the offset and
\* auto flag before it, the offset lies in 0 .. max(0, total - height); it is
\* that maximum when auto is set and min(offset before, maximum) otherwise.
C15_ScrollClamp ==
    [][DrawStep =>
         LET total == LayoutLines(messages')
             viewportHeight == chat_win_h' - 2
             maxScroll == IF total - viewportHeight > 0
                          THEN total - viewportHeight ELSE 0
         IN  /\ scroll_offset' \in 0..maxScroll
             /\ auto_scroll => scroll_offset' = maxScroll
             /\ ~auto_scroll =>
                   scroll_offset' = (IF scroll_offset < maxScroll
                                     THEN scroll_offset ELSE maxScroll)]_vars

\* a draw has clamped the offset of an unpinned view to the bottom of a
\* conversation longer than the window
C15_Witness ==
    /\ loop = "input"
    /\ ~auto_scroll
    /\ Len(messages) = 2
    /\ scroll_offset = LayoutLines(messages) - (chat_win_h - 2)
    /\ scroll_offset > 0

\* the offsets the view may show: 0 .. max(0, total_lines - visible_height)
InRange(offset) == offset \in 0..max_scroll(messages, chat_win_h)

\* C16: while the program runs the stored scroll offset lies in [0, max(0,
\* total_lines - visible_height)], also between a scroll command and the next
\* draw.
C16_OffsetInRange == Alive => InRange(scroll_offset)

\* this step is a manual scroll command: Page Up/Down, Shift+Up/Down, or
\* Up/Down with the focus on the input
ScrollCommand ==
    \/ \E direction \in {-1, 1} : KeyPage(direction)
    \/ \E direction \in {-1, 1} : KeyShiftArrow(direction)
    \/ \E direction \in {-1, 1} : KeyArrowInput(direction)

\* C17: after any manual scroll command, in any state, the auto flag is false.
C17_ScrollDisengagesAuto == [][ScrollCommand => ~auto_scroll']_vars

\* C18: once the auto flag is false no step of the running program sets it
\* again: no send, event, draw, resize, chat command or dialog.
C18_AutoNeverReenabled ==
    [][(~auto_scroll /\ loop' # "exited") => ~auto_scroll']_vars

\* the view was unpinned, and since then a message was sent and its reply
\* applied and stored, in a terminal that was resized
C18_Witness ==
    /\ ~auto_scroll
    /\ runs = 2
    /\ workers[2].pc = "end"
    /\ ~is_thinking
    /\ Len(messages) = 4
    /\ chat_win_h # SmallWindow
    /\ scroll_offset < max_scroll(messages, chat_win_h)
    /\ loop = "input"

\* C11: the main loop is never inside a call of the backend client.
C11_MainLoopNeverCallsBackend == loop # "fetch"

\* this step is taken by a worker thread: a send worker, a title worker or
\* the model preload
ByWorker ==
    /\ loop' # "exited"
    /\ \/ (workers' # workers /\ runs' = runs)
       \/ \E c \in ChatIds : TitleWorkerEnds(c)
       \/ preload' # preload

\* this step appends one event to the queue
Pushing ==
    /\ Len(stream_queue') = Len(stream_queue) + 1
    /\ IsPrefix(stream_queue, stream_queue')

\* C12: a worker step pushes to the queue or leaves it alone and writes
\* neither the model list, the store nor any field of the main loop; a step
\* of the main loop never pushes; only the main loop pops.
C12_QueueSoleSharedResource ==
    [][/\ ByWorker =>
            /\ Pushing \/ UNCHANGED stream_queue
            /\ UNCHANGED <<all_models, dbVars, uiVars, viewVars>>
       /\ (stream_queue' # stream_queue /\ loop' # "exited" /\ ~ByWorker) =>
            (loop = "drain" /\ stream_queue' = Tail(stream_queue))]_vars

\* the main loop waits in a dialog
InDialog == loop \in DialogStates

\* C20: opening a dialog, the time it is open and dismissing it leave the
\* focus as it is; while a dialog is open the queue only grows, by events
\* appended in the order they are put; dismissing it keeps the queue and
\* takes the main loop to the drain, which takes the events off the head one
\* by one and draws and reads a key only when the queue is empty.  (A confirmed
\* exit ends the program.)
C20_ModalDialogs ==
    [][/\ ((InDialog \/ InDialog') /\ loop' # "exited") => focus' = focus
       /\ (InDialog /\ loop' # "exited") =>
            /\ Pushing \/ UNCHANGED stream_queue
            /\ UNCHANGED applied
            /\ InDialog' \/ loop' = "drain"
       /\ (stream_queue' # stream_queue /\ ~Pushing /\ loop' # "exited") =>
            (loop = "drain" /\ stream_queue' = Tail(stream_queue))
       /\ (loop = "drain" /\ loop' = "input") => stream_queue = <<>>]_vars

\* the model picker is open over the sidebar's focus while the reply streams:
\* a chunk and the Done are queued
C20_Witness ==
    /\ loop = "picker"
    /\ focus = "sidebar"
    /\ Len(stream_queue) = 2
    /\ stream_queue[1].type \in ChunkTypes
    /\ stream_queue[2].type = "done"

\* ---- markdown layout
LineLen(line) == segments_len(line)

Returned(f) == md.call = f /\ md.result.status = "returned"

\* C21: for a non-empty list of runs and a width of at least 1,
\* wrap_styled_text returns, and every line it returns has a total text
\* length of at most the width.
C21_WrapInvariant ==
    (md.call = "wrap_styled_text" /\ md.result # Pending
        /\ md.arg # <<>> /\ md.width >= 1) =>
        /\ Returned("wrap_styled_text")
        /\ \A i \in 1..Len(md.result.value) :
               LineLen(md.result.value[i]) <= md.width

\* a token wider than the width was hard-split over three lines
C21_Witness ==
    /\ Returned("wrap_styled_text")
    /\ md.width = 2
    /\ md.arg = <<<<<<"a", "a", "a", "a">>, 1>>, <<<<"a">>, 2>>>>
    /\ Len(md.result.value) = 3
    /\ LineLen(md.result.value[1]) = 2

NonSpace(text) == \A i \in 1..Len(text) : ~IsSpace(text[i])

\* the k-th run is one token: it has no whitespace, and whitespace or nothing
\* stands before it and after it
IsToken(segments, k) ==
    /\ segments[k][1] # <<>>
    /\ NonSpace(segments[k][1])
    /\ k = 1 \/ (segments[k - 1][1] # <<>> /\ IsSpace(Last(segments[k - 1][1])))
    /\ k = Len(segments)
          \/ (segments[k + 1][1] # <<>> /\ IsSpace(Head(segments[k + 1][1])))

RECURSIVE Flatten(_)
Flatten(lines) == IF lines = <<>> THEN <<>> ELSE Head(lines) \o Flatten(Tail(lines))

\* the runs of the returned lines that carry attribute k, in order: the
\* fragments of the k-th run of the input
Fragments(lines, k) == SelectSeq(Flatten(lines), LAMBDA run : run[2] = k)

CeilDiv(a, b) == (a + b - 1) \div b

\* C22: a token longer than the width is split into exactly ceil(len/width)
\* fragments, each of exactly width characters except possibly the last,
\* wherever the token stands in the input.
C22_HardSplit ==
    (Returned("wrap_styled_text") /\ md.width >= 1) =>
        \A k \in 1..Len(md.arg) :
            (IsToken(md.arg, k) /\ Len(md.arg[k][1]) > md.width) =>
                LET f == Fragments(md.result.value, k)
                IN  /\ Len(f) = CeilDiv(Len(md.arg[k][1]), md.width)
                    /\ \A i \in 1..(Len(f) - 1) : Len(f[i][1]) = md.width

\* the text of a list of runs
RECURSIVE TextOf(_)
TextOf(segments) ==
    IF segments = <<>> THEN <<>> ELSE Head(segments)[1] \o TextOf(Tail(segments))

\* C25: for a limit of at least 1, truncate_segments returns runs of a total
\* length of at most the limit; an input no longer than the limit is returned
\* unchanged, and the text returned for a longer one ends in an ellipsis, its
\* only one, wherever the run boundaries fall.
C25_Truncation ==
    (Returned("truncate_segments") /\ md.width >= 1) =>
        LET out == TextOf(md.result.value[1])
        IN  /\ Len(out) <= md.width
            /\ segments_len(md.arg) <= md.width => md.result.value[1] = md.arg
            /\ segments_len(md.arg) > md.width =>
                  /\ out # <<>>
                  /\ Last(out) = Ellipsis
                  /\ \A i \in 1..(Len(out) - 1) : out[i] # Ellipsis

\* C23: every line parse_table returns, borders and rows, has a rendered
\* length of at most the requested width.
C23_TableWidth ==
    Returned("parse_table") =>
        \A i \in 1..Len(md.result.value[1]) :
            LineLen(md.result.value[1][i]) <= md.width

\* the column widths a rendered table was drawn with, read off its top
\* border: each column's rule has its width + 2 characters
RenderedWidths(rendered_rows) ==
    LET text == rendered_rows[1][1][1]
        rules == split(SubSeq(text, 2, Len(text) - 1), TopBorder[2])
    IN  [j \in 1..Len(rules) |-> Len(rules[j]) - 2]

\* C24: every column width parse_table uses for borders and padding is at
\* least 1, with or without shrinking, also for a column of empty cells.
C24_ColumnFloor ==
    (Returned("parse_table") /\ md.result.value[1] # <<>>) =>
        LET widths == RenderedWidths(md.result.value[1])
        IN  \A j \in 1..Len(widths) : widths[j] >= 1

\* C26: render_markdown returns a list of lines, without raising, for every
\* text and every width of at least 1: the empty text, an unterminated code
\* fence, a table-like run without data rows, a list item whose prefix is as
\* wide as the width or wider.
C26_LayoutTotality ==
    (md.call = "render_markdown" /\ md.result.status # "pending") =>
        md.result.status = "returned"

\* ---- replies and the store
\* the chats whose stored messages this step changes
WrittenChats == {c \in ChatIds : db_messages'[c] # db_messages[c]}

\* C27: the assistant message stored when the Done or Cancelled of a run is
\* applied goes to the chat that was current when the run's send was
\* accepted, whatever chat is current now.
C27_ReplyInOriginChat ==
    [][(Applying("done") \/ Applying("cancelled")) =>
          WrittenChats \subseteq {origin[Head(stream_queue).run]}]_vars

\* C28: the message stored when the Done of a run is applied has role
\* assistant and, as content, the concatenation of the run's Content chunks
\* (the empty text for a run without chunks).
C28_PersistedReply ==
    [][(Applying("done") /\ Head(stream_queue).run = runs) =>
          \A c \in WrittenChats :
             /\ Len(db_messages'[c]) = Len(db_messages[c]) + 1
             /\ Last(db_messages'[c]).role = "assistant"
             /\ Last(db_messages'[c]).content = ContentData(sent)]_vars

\* C29: no handler of a queued event raises in the main loop.
C29_HandlersTotal == loop # "crashed"

\* C30: applying TitleUpdated while a send is outstanding leaves the open
\* assistant message, with the content applied to it, the last message of
\* the conversation.
C30_TitleKeepsOpenMessage ==
    [][(/\ Applying("title_updated")
        /\ is_thinking
        /\ messages # <<>>
        /\ Last(messages).role = "assistant"
        /\ applied # <<>>) =>
          (messages' # <<>> /\ Last(messages') = Last(messages))]_vars


\* ---- the store and the view
\* the roles and contents of a conversation, in order
RoleContent(ms) ==
    [i \in 1..Len(ms) |-> [role |-> ms[i].role, content |-> ms[i].content]]

\* C31: while the program runs with no send outstanding and an empty event
\* queue, the conversation in memory has the roles and contents of the
\* current chat's stored messages.
C31_StoreViewAgreement ==
    (/\ Alive
     /\ ~is_thinking
     /\ Outstanding = {}
     /\ stream_queue = <<>>
     /\ current_chat_id # 0) =>
        RoleContent(messages) = RoleContent(db_messages[current_chat_id])

\* ---- title generation
\* the chats for which this step starts a title worker
TitleStarts == {c \in ChatIds : title_workers'[c] > title_workers[c]}

\* C32: a title worker is started for a chat only in the step that applies
\* the Done of the first send accepted in that chat; a run puts one terminal
\* event, so this is at most once for each chat.
C32_TitleOncePerChat ==
    [][\A c \in TitleStarts :
          /\ Applying("done")
          /\ LET r == Head(stream_queue).run
             IN  /\ origin[r] = c
                 /\ \A q \in 1..(r - 1) : origin[q] # c]_vars

\* ---- the cancel flag
\* this step is send worker r putting Cancelled
PuttingCancelled(r) ==
    /\ Len(stream_queue') = Len(stream_queue) + 1
    /\ Last(stream_queue').type = "cancelled"
    /\ Last(stream_queue').run = r

\* C33: stop_event becomes set only in a step taken while a send is
\* outstanding, it is clear after every step that starts a send worker, and a
\* worker puts Cancelled only with the flag set while its own run is the
\* outstanding one.
C33_CancelFlagScope ==
    [][/\ (stop_event' /\ ~stop_event) => is_thinking
       /\ (runs' = runs + 1) => ~stop_event'
       /\ \A r \in Runs :
             PuttingCancelled(r) => (stop_event /\ is_thinking /\ r = runs)]_vars

\* a second run has ended in Done after the first was cancelled
C33_Witness ==
    /\ runs = 2
    /\ ~stop_event
    /\ sent # <<>>
    /\ Last(sent).type = "done"
    /\ \E c \in ChatIds : \E i \in 1..Len(db_messages[c]) :
          /\ db_messages[c][i].role = "assistant"
          /\ db_messages[c][i].content # <<>>
          /\ Last(db_messages[c][i].content) = " [Cancelled]"

\* ---- the chat selection
\* the chat list is non-empty, the current chat is in it and the sidebar
\* index is an index of it
ChatSelected ==
    /\ chats # <<>>
    /\ \E i \in 1..Len(chats) : chats[i] = current_chat_id
    /\ 0 <= sidebar_idx
    /\ sidebar_idx < Len(chats)

\* this step deletes the only chat of the store
DeletingLastChat ==
    /\ Len(db_chats) = 1
    /\ loop' # "exited"
    /\ \A i \in 1..Len(db_chats') : db_chats'[i] # db_chats[1]

\* C34: while the program runs the chat list is non-empty, the current chat
\* is in the list and the sidebar index is within it; the step that deletes
\* the only chat leaves a fresh chat as the only and current one, with an
\* empty conversation.
C34_ChatSelection ==
    /\ ChatSelected
    /\ [][/\ Alive' => ChatSelected'
          /\ DeletingLastChat =>
                /\ chats' = <<next_id>>
                /\ db_chats' = <<next_id>>
                /\ current_chat_id' = next_id
                /\ sidebar_idx' = 0
                /\ messages' = <<>>
                /\ db_messages'[next_id] = <<>>]_vars

\* after a send in the first chat the store's only chat has been deleted:
\* its successor is the only and current chat
C34_Witness ==
    /\ Alive
    /\ db_chats = <<2>>
    /\ chats = <<2>>
    /\ current_chat_id = 2
    /\ db_messages[1] = <<>>
    /\ runs > 0

\* ---- wrapping and the text
\* the characters of a text that are not whitespace, each with the attribute
\* attr, in order
RECURSIVE StyledText(_, _)
StyledText(text, attr) ==
    IF text = <<>> THEN <<>>
    ELSE (IF IsSpace(Head(text)) THEN <<>> ELSE <<<<Head(text), attr>>>>)
         \o StyledText(Tail(text), attr)

\* the same of a list of runs
RECURSIVE StyledChars(_)
StyledChars(segments) ==
    IF segments = <<>> THEN <<>>
    ELSE StyledText(Head(segments)[1], Head(segments)[2])
         \o StyledChars(Tail(segments))

\* C35: for a width of at least 1, the runs of the lines wrap_styled_text
\* returns hold, in order, the characters of the input that are not
\* whitespace, each with the attribute of the run it came from.
C35_WrapKeepsText ==
    (Returned("wrap_styled_text") /\ md.width >= 1) =>
        StyledChars(Flatten(md.result.value)) = StyledChars(md.arg)

\* two runs of two words each were wrapped at width 2: the second run's long
\* word is split over lines and the blanks between the words are gone
C35_Witness ==
    /\ Returned("wrap_styled_text")
    /\ md.width = 2
    /\ md.arg = <<<<<<"a", " ", "b">>, 1>>, <<<<"b", "a", "b", " ">>, 2>>>>
    /\ Len(md.result.value) = 3
    /\ StyledChars(Flatten(md.result.value))
          = <<<<"a", 1>>, <<"b", 1>>, <<"b", 2>>, <<"a", 2>>, <<"b", 2>>>>

\* ------------------------------------------------------------------ input editing
\* the printable characters typed while the input is edited
EditChars == {" ", "a"}

\* a _move_cursor that does not clamp
move_cursor_NoClamp(delta) ==
    cursor_pos' = cursor_pos + delta

\* _move_cursor
move_cursor(delta) ==
    cursor_pos' = Max(0, Min(Len(input_text), cursor_pos + delta))

\* _delete_backward
delete_backward ==
    IF cursor_pos > 0
    THEN /\ input_text' = SubSeq(input_text, 1, cursor_pos - 1)
                          \o SubSeq(input_text, cursor_pos + 1, Len(input_text))
         /\ cursor_pos' = cursor_pos - 1
    ELSE UNCHANGED <<input_text, cursor_pos>>

\* _delete_forward
delete_forward ==
    /\ input_text' = IF cursor_pos < Len(input_text)
                     THEN SubSeq(input_text, 1, cursor_pos)
                          \o SubSeq(input_text, cursor_pos + 2, Len(input_text))
                     ELSE input_text
    /\ UNCHANGED cursor_pos

\* what a key of the input field leaves alone
editFrame == <<messages, is_thinking, stop_event, chatFrame, focus,
               show_sidebar, db_messages, workers, runs, histVars, bgVars>>

\* _handle_input_keys: a printable character, into an input of any length up
\* to MaxEdit
KeyCharEdit(c) ==
    /\ UNCHANGED <<api_db, mdVars>>
    /\ loop = "input"
    /\ focus = "input"
    /\ Len(input_text) < MaxEdit
    /\ loop' = "drain"
    /\ insert_char(c)
    /\ UNCHANGED editFrame

\* _handle_input_keys: Backspace
KeyBackspace ==
    /\ UNCHANGED <<api_db, mdVars>>
    /\ loop = "input"
    /\ focus = "input"
    /\ loop' = "drain"
    /\ delete_backward
    /\ UNCHANGED editFrame

\* _handle_input_keys: Delete
KeyDelete ==
    /\ UNCHANGED <<api_db, mdVars>>
    /\ loop = "input"
    /\ focus = "input"
    /\ loop' = "drain"
    /\ delete_forward
    /\ UNCHANGED editFrame

\* _handle_input_keys: Left (delta = -1) and Right (delta = 1)
KeyLeftRight(delta) ==
    /\ UNCHANGED <<api_db, mdVars>>
    /\ loop = "input"
    /\ focus = "input"
    /\ loop' = "drain"
    /\ move_cursor(delta)
    /\ UNCHANGED <<input_text, editFrame>>

\* _handle_input_keys: Home
KeyHome ==
    /\ UNCHANGED <<api_db, mdVars>>
    /\ loop = "input"
    /\ focus = "input"
    /\ loop' = "drain"
    /\ cursor_pos' = 0
    /\ UNCHANGED <<input_text, editFrame>>

\* _handle_input_keys: End
KeyEnd ==
    /\ UNCHANGED <<api_db, mdVars>>
    /\ loop = "input"
    /\ focus = "input"
    /\ loop' = "drain"
    /\ cursor_pos' = Len(input_text)
    /\ UNCHANGED <<input_text, editFrame>>

\* the keys of the input field
EditStep ==
    \/ \E c \in EditChars : KeyCharEdit(c)
    \/ KeyBackspace
    \/ KeyDelete
    \/ \E delta \in {-1, 1} : KeyLeftRight(delta)
    \/ KeyHome
    \/ KeyEnd

\* the program with the input field's keys, Enter, Ctrl+N and Ctrl+C, and a
\* backend that ends or raises before it yields
EditNext ==
    \/ ProcessEvent
    \/ DrainEmpty
    \/ EditStep
    \/ KeyEnter
    \/ KeyCtrlN
    \/ \E confirm \in BOOLEAN : KeyboardInterrupt(confirm)
    \/ \E r \in Runs : ApiWorkerDone(r)
    \/ \E r \in Runs : ApiWorkerError(r)
    \/ TitleWorkerStep

EditSpec == Init /\ [][EditNext]_vars

\* C36: while the program runs the cursor is within the input text:
\* 0 <= cursor_pos <= len(input_text).
C36_CursorInvariant ==
    Alive => (0 <= cursor_pos /\ cursor_pos <= Len(input_text))

\* during a run, a typed text of three characters with the cursor moved
\* inside it
C36_Witness ==
    /\ Alive
    /\ is_thinking
    /\ input_text = <<"a", " ", "a">>
    /\ cursor_pos = 1
    /\ loop = "drain"
====
